---- MODULE Spec2Model ----
(***************************************************************************)
(* Model of the AVTO LAIF classifieds backend (segunemma2003/carloanbackend)*)
(* as a state machine over its persistent rows: users and refresh-token    *)
(* sessions, ads, chat dialogs and messages, payments and ad boosts.       *)
(* Every request handler is one action; the rows it commits are the primed *)
(* variables.  `last` records the handler that ran last, its inputs and    *)
(* the response it gave.                                                   *)
(***************************************************************************)
EXTENDS Integers, Sequences, FiniteSets, TLC

\* ---------------------------------------------------------------- bounds
MaxSessions == 3
MaxRequests == 2
MaxAuthTime == 31
MaxDialogs == 1
MaxMessages == 2
MaxPayments == 2
MaxBoosts == 2
MaxDay == 8
MaxAds == 2
MaxReports == 1
MaxDialogRequests == 2
MaxCompareAds == 11
MaxUsers == 5
MaxTokens == 2
MaxLogins == 2
MaxRaceDialogs == 2
MaxCategories == 3
MaxLevel == 2
MaxModerationDay == 1
MaxConnections == 2

\* ------------------------------------------------------ program constants
REFRESH_TOKEN_EXPIRE_DAYS == 30

\* create_verification_token(expires_hours=24), the row's timedelta(hours=24)
VerificationExpireHours == 24

\* create_password_reset_token(expires_hours=1), the row's timedelta(hours=1)
ResetExpireHours == 1

\* the clock `now` counts days
HoursPerDay == 24

\* None of Python, for nullable integer columns
NoneVal == -1

\* the accounts of the model: two private sellers/buyers, a moderator, an admin
Users == 1..4
UserRoleOf == <<"user", "user", "moderator", "admin">>

\* the accounts whose e-mail address is verified at the start
VerifiedUsers == {1, 2, 4}

\* the e-mail addresses of the accounts that exist at the start, the address
\* nobody has registered yet, and the passwords that requests carry
EmailOf == <<"u1@x", "u2@x", "u3@x", "u4@x">>
NewEmail == "new@x"
InitPassword == "pw1"
Passwords == {"pw1", "pw2"}

\* a refresh token that was never issued (bad signature / unknown jti)
ForgedToken == 0

\* String(255) of Dialog.last_message_text and the slice text[:255]
PreviewLen == 255

\* a message text is modelled by its length; TextNone is text = None
TextNone == 0
Texts == {300}
\* the literal "[Attachment]" stored as preview of a message without text
AttachmentPreview == -2

\* clock step of the authentication scenarios, in days
AuthTickDays == 31

\* timedelta(days=7) of the refund endpoint
RefundWindowDays == 7

\* the size limit of a comparison list
ComparisonLimit == 10

\* the empty provider_transaction_id "" a payment is created with
EmptyTxn == 0

VARIABLES
    now,        \* datetime.now(timezone.utc), in days
    users,      \* table users: id -> row
    sessions,   \* table user_sessions, by id; the refresh token of row i is i
    requests,   \* in-flight /auth/refresh and /auth/logout requests
    exchanged,  \* refresh tokens that a /auth/refresh call has redeemed
    ads,        \* table ads, by id
    dialogs,    \* table dialogs, by id
    messages,   \* table messages, by id
    payments,   \* table payments, by id
    boosts,     \* table ad_boosts, by id
    reports,    \* table reports, by id
    favorites,  \* table favorites, in insertion order
    comparisons,      \* table comparisons, unique per (user_id, ad_id)
    verifications,    \* table email_verifications, by id
    resets,           \* table password_resets, by id
    admin_sessions,   \* the cookie sessions of the admin back office
    categories,       \* table categories, by id
    dialog_requests,  \* in-flight POST /chat/dialogs requests
    manager,          \* the ConnectionManager instance: registry and lock
    connections,      \* the websocket_chat coroutines, by WebSocket
    last        \* the handler that ran last: inputs and response

vars == <<now, users, sessions, requests, exchanged, ads, dialogs, messages,
          payments, boosts, reports, favorites, comparisons, verifications,
          resets, admin_sessions, categories, dialog_requests, manager,
          connections, last>>

authVars == <<users, sessions, requests, exchanged>>
chatVars == <<dialogs, messages>>
billingVars == <<payments, boosts>>
favVars == <<favorites, comparisons>>
tokenVars == <<verifications, resets>>
wsVars == <<manager, connections>>
otherVars == <<favVars, tokenVars, wsVars, admin_sessions, categories,
               dialog_requests>>
notAccount == <<now, requests, exchanged, ads, chatVars, billingVars, reports,
                favVars, wsVars, admin_sessions, categories, dialog_requests>>
notChat == <<now, users, sessions, requests, exchanged, ads, billingVars,
             reports, otherVars>>
notBilling == <<authVars, chatVars, reports, otherVars>>
notAds == <<now, authVars, chatVars, billingVars, otherVars>>

\* ================================================================= helpers
Response(op, user, target, arg, status) ==
    [op |-> op, user |-> user, target |-> target, arg |-> arg, status |-> status]

\* ============================================================ users, auth
\* UserSession.is_valid
is_valid(s) ==
    IF s.revoked THEN FALSE
    ELSE IF now > s.expires_at THEN FALSE
    ELSE TRUE

revoke_noop(s) == s

\* UserSession.revoke
revoke(s) == [s EXCEPT !.revoked = TRUE]

\* create_refresh_token + UserSession(...): the row of a fresh token
NewSession(u) ==
    [user_id |-> u, revoked |-> FALSE,
     expires_at |-> now + REFRESH_TOKEN_EXPIRE_DAYS]

\* verify_token_type(token, "refresh"): signature, type and the exp claim
\* (exp of the token of session i equals the expires_at of the row)
verify_token_type(tok) ==
    /\ tok \in 1..Len(sessions)
    /\ now <= sessions[tok].expires_at

\* get_refresh_token_session: "ok" or the error it raises
get_refresh_token_session(tok) ==
    IF ~verify_token_type(tok) THEN "TOKEN_EXPIRED"
    ELSE LET u == users[sessions[tok].user_id] IN
         IF ~u.present \/ u.deleted THEN "AUTHENTICATION_ERROR"
         ELSE IF ~u.is_active THEN "AUTHENTICATION_ERROR"
         ELSE IF u.is_blocked THEN "AUTHENTICATION_ERROR"
         ELSE IF ~is_valid(sessions[tok])
              THEN (IF sessions[tok].revoked THEN "SESSION_REVOKED"
                    ELSE "TOKEN_EXPIRED")
         ELSE "ok"

RevokeAllOf_none(u) == sessions

\* every session of the user that is not revoked yet gets revoked
RevokeAllOf(u) ==
    [i \in 1..Len(sessions) |->
        IF sessions[i].user_id = u /\ ~sessions[i].revoked
        THEN revoke(sessions[i]) ELSE sessions[i]]

\* hash_password: a bcrypt digest of the password, never the password itself
hash_password(pw) == <<"bcrypt", pw>>

verify_password_any(pw, h) == TRUE

\* verify_password: bcrypt.checkpw of the plain password against the digest
verify_password(pw, h) == h = <<"bcrypt", pw>>

\* the ids of the rows of the users table
UserIds == {u \in DOMAIN users : users[u].present}

\* select(User).where(User.email == e, User.deleted_at.is_(None))
UsersByEmail(e) == {u \in UserIds : users[u].email = e /\ ~users[u].deleted}

\* User(...) as register creates it, column defaults included
NewUser(e, pw) ==
    [role |-> "user", is_active |-> TRUE, is_blocked |-> FALSE,
     deleted |-> FALSE, email_verified |-> FALSE, present |-> TRUE,
     email |-> e, password_hash |-> hash_password(pw)]

\* POST /auth/login with an e-mail address and a password
login(ident, pw) ==
    /\ LET found == UsersByEmail(ident)
           u == IF found = {} THEN NoneVal ELSE CHOOSE x \in found : TRUE IN
       IF found = {} \/ ~verify_password(pw, users[u].password_hash)
       THEN /\ last' = Response("login", u, NoneVal, <<ident, pw>>, "AUTHENTICATION_ERROR")
            /\ UNCHANGED sessions
       ELSE IF ~users[u].is_active
       THEN /\ last' = Response("login", u, NoneVal, <<ident, pw>>, "AUTHENTICATION_ERROR")
            /\ UNCHANGED sessions
       ELSE IF users[u].is_blocked
       THEN /\ last' = Response("login", u, NoneVal, <<ident, pw>>, "AUTHENTICATION_ERROR")
            /\ UNCHANGED sessions
       ELSE /\ sessions' = Append(sessions, NewSession(u))
            /\ last' = Response("login", u, Len(sessions) + 1, <<ident, pw>>, "ok")
    /\ UNCHANGED <<now, users, requests, exchanged, ads, chatVars,
                 billingVars, reports, otherVars>>

\* the dependency of /auth/refresh and /auth/logout: the request r presents
\* the refresh token tok; a rejected request ends here
PresentRefreshToken(r, tok, op) ==
    /\ requests[r].pc = "idle"
    /\ LET res == get_refresh_token_session(tok) IN
       /\ last' = Response(op \o "_present", IF tok \in 1..Len(sessions)
                                              THEN sessions[tok].user_id ELSE NoneVal,
                           tok, NoneVal, res)
       /\ requests' = [requests EXCEPT ![r] =
                          IF res = "ok" THEN [pc |-> op, token |-> tok]
                          ELSE [pc |-> "idle", token |-> NoneVal]]
    /\ UNCHANGED <<now, users, sessions, exchanged, ads, chatVars,
                 billingVars, reports, otherVars>>

refresh_tokens_recheck(r) ==
    /\ requests[r].pc = "refresh"
    /\ Len(sessions) < MaxSessions
    /\ LET old == requests[r].token
           u == sessions[old].user_id IN
       IF sessions[old].revoked
       THEN /\ last' = Response("refresh", u, old, NoneVal, "SESSION_REVOKED")
            /\ UNCHANGED <<sessions, exchanged>>
       ELSE /\ sessions' = Append([sessions EXCEPT ![old] = revoke(sessions[old])],
                                  NewSession(u))
            /\ exchanged' = exchanged \cup {old}
            /\ last' = Response("refresh", u, old, Len(sessions) + 1, "ok")
    /\ requests' = [requests EXCEPT ![r] = [pc |-> "idle", token |-> NoneVal]]
    /\ UNCHANGED <<now, users, ads, chatVars,
                 billingVars, reports, otherVars>>

\* POST /auth/refresh, the handler body
refresh_tokens(r) ==
    /\ requests[r].pc = "refresh"
    /\ Len(sessions) < MaxSessions
    /\ LET old == requests[r].token
           u == sessions[old].user_id IN
       /\ sessions' = Append([sessions EXCEPT ![old] = revoke(sessions[old])],
                             NewSession(u))
       /\ exchanged' = exchanged \cup {old}
       /\ last' = Response("refresh", u, old, Len(sessions) + 1, "ok")
    /\ requests' = [requests EXCEPT ![r] = [pc |-> "idle", token |-> NoneVal]]
    /\ UNCHANGED <<now, users, ads, chatVars,
                 billingVars, reports, otherVars>>

\* POST /auth/logout, the handler body
logout(r) ==
    /\ requests[r].pc = "logout"
    /\ LET old == requests[r].token IN
       /\ sessions' = [sessions EXCEPT ![old] = revoke(sessions[old])]
       /\ last' = Response("logout", sessions[old].user_id, old, NoneVal, "ok")
    /\ requests' = [requests EXCEPT ![r] = [pc |-> "idle", token |-> NoneVal]]
    /\ UNCHANGED <<now, users, exchanged, ads, chatVars,
                 billingVars, reports, otherVars>>

\* POST /users/{user_id}/block by an admin
block_user(admin, u) ==
    /\ UserRoleOf[admin] = "admin"
    /\ IF users[u].deleted
       THEN /\ last' = Response("block_user", admin, u, NoneVal, "NOT_FOUND")
            /\ UNCHANGED <<users, sessions>>
       ELSE IF users[u].role = "admin"
       THEN /\ last' = Response("block_user", admin, u, NoneVal, "VALIDATION_ERROR")
            /\ UNCHANGED <<users, sessions>>
       ELSE /\ users' = [users EXCEPT ![u].is_blocked = TRUE]
            /\ sessions' = RevokeAllOf(u)
            /\ last' = Response("block_user", admin, u, NoneVal, "ok")
    /\ UNCHANGED <<now, requests, exchanged, ads, chatVars,
                 billingVars, reports, otherVars>>

\* POST /users/{user_id}/unblock by an admin
unblock_user(admin, u) ==
    /\ UserRoleOf[admin] = "admin"
    /\ IF users[u].deleted
       THEN /\ last' = Response("unblock_user", admin, u, NoneVal, "NOT_FOUND")
            /\ UNCHANGED users
       ELSE /\ users' = [users EXCEPT ![u].is_blocked = FALSE]
            /\ last' = Response("unblock_user", admin, u, NoneVal, "ok")
    /\ UNCHANGED <<now, sessions, requests, exchanged, ads, chatVars,
                 billingVars, reports, otherVars>>

\* time passes between two requests
TickAuth ==
    /\ now + AuthTickDays <= MaxAuthTime
    /\ now' = now + AuthTickDays
    /\ last' = Response("tick", NoneVal, NoneVal, NoneVal, "ok")
    /\ UNCHANGED <<users, sessions, requests, exchanged, ads, chatVars,
                 billingVars, reports, otherVars>>

\* ================================================= accounts, one-time tokens
\* get_current_user: the account behind a valid access token may act
get_current_user(u) ==
    /\ u \in UserIds
    /\ ~users[u].deleted
    /\ users[u].is_active
    /\ ~users[u].is_blocked

\* jwt.encode of {sub, exp, type}: equal claims give the same token
create_verification_token(e) ==
    [sub |-> e, exp |-> now + (VerificationExpireHours \div HoursPerDay),
     type |-> "email_verification"]

create_password_reset_token(e) ==
    [sub |-> e, exp |-> now + (ResetExpireHours \div HoursPerDay),
     type |-> "password_reset"]

\* a token that was not signed with the key of the server
ForgedJwt == [sub |-> EmailOf[1], exp |-> 0, type |-> "forged"]

\* the value of sub that stands for None
NoEmail == "none"

\* verify_token_type(token, expected_type) and payload.get("sub")
verify_typed_token(tok, expected_type) ==
    IF tok.type = expected_type /\ now <= tok.exp THEN tok.sub ELSE NoEmail

verify_email_token(tok) == verify_typed_token(tok, "email_verification")

verify_password_reset_token(tok) == verify_typed_token(tok, "password_reset")

\* EmailVerification(...) and PasswordReset(...): used defaults to False
NewTokenRow(u, tok, hours) ==
    [user_id |-> u, token |-> tok,
     expires_at |-> now + (hours \div HoursPerDay), used |-> FALSE]

\* the unique constraint on the token column
TokenTaken(table, tok) == \E i \in 1..Len(table) : table[i].token = tok

\* the rows select(...).where(user_id == u, token == tok) returns, marked used
MarkUsed(table, u, tok) ==
    [i \in 1..Len(table) |->
        IF table[i].user_id = u /\ table[i].token = tok
        THEN [table[i] EXCEPT !.used = TRUE] ELSE table[i]]

\* POST /auth/register
register(e, pw) ==
    /\ Len(users) < MaxUsers
    /\ Len(verifications) < MaxTokens
    /\ LET id == Len(users) + 1 IN
       IF UsersByEmail(e) # {}
       THEN /\ last' = Response("register", NoneVal, NoneVal, e, "CONFLICT")
            /\ UNCHANGED <<users, sessions, verifications>>
       ELSE IF \/ \E u \in UserIds : users[u].email = e
               \/ TokenTaken(verifications, create_verification_token(e))
       THEN \* IntegrityError on users.email or on the token column: the
            \* transaction is rolled back, the answer is a 500
            /\ last' = Response("register", NoneVal, NoneVal, e, "INTERNAL_ERROR")
            /\ UNCHANGED <<users, sessions, verifications>>
       ELSE /\ users' = Append(users, NewUser(e, pw))
            /\ sessions' = Append(sessions, NewSession(id))
            /\ verifications' =
                  Append(verifications,
                         NewTokenRow(id, create_verification_token(e),
                                     VerificationExpireHours))
            /\ last' = Response("register", id, Len(sessions) + 1, e, "ok")
    /\ UNCHANGED <<resets, notAccount>>

\* POST /auth/logout-all
logout_all(u) ==
    /\ IF ~get_current_user(u)
       THEN /\ last' = Response("logout_all", u, NoneVal, NoneVal, "AUTHENTICATION_ERROR")
            /\ UNCHANGED sessions
       ELSE /\ sessions' = RevokeAllOf(u)
            /\ last' = Response("logout_all", u, NoneVal, NoneVal, "ok")
    /\ UNCHANGED <<users, tokenVars, notAccount>>

\* DELETE /users/me
delete_account(u) ==
    /\ IF ~get_current_user(u)
       THEN /\ last' = Response("delete_account", u, NoneVal, NoneVal, "AUTHENTICATION_ERROR")
            /\ UNCHANGED <<users, sessions>>
       ELSE /\ users' = [users EXCEPT ![u].deleted = TRUE, ![u].is_active = FALSE]
            /\ sessions' = RevokeAllOf(u)
            /\ last' = Response("delete_account", u, NoneVal, NoneVal, "ok")
    /\ UNCHANGED <<tokenVars, notAccount>>

\* POST /auth/verify-email
verify_email(tok) ==
    /\ LET email == verify_email_token(tok)
           found == UsersByEmail(email)
           u == IF found = {} THEN NoneVal ELSE CHOOSE x \in found : TRUE IN
       IF email = NoEmail
       THEN /\ last' = Response("verify_email", NoneVal, NoneVal, tok, "VALIDATION_ERROR")
            /\ UNCHANGED <<users, verifications>>
       ELSE IF found = {}
       THEN /\ last' = Response("verify_email", NoneVal, NoneVal, tok, "NOT_FOUND")
            /\ UNCHANGED <<users, verifications>>
       ELSE IF users[u].email_verified
       THEN /\ last' = Response("verify_email", u, "already", tok, "ok")
            /\ UNCHANGED <<users, verifications>>
       ELSE /\ users' = [users EXCEPT ![u].email_verified = TRUE]
            /\ verifications' = MarkUsed(verifications, u, tok)
            /\ last' = Response("verify_email", u, "verified", tok, "ok")
    /\ UNCHANGED <<sessions, resets, notAccount>>

\* POST /auth/resend-verification
resend_verification(u) ==
    /\ Len(verifications) < MaxTokens
    /\ LET tok == create_verification_token(users[u].email) IN
       IF ~get_current_user(u)
       THEN /\ last' = Response("resend_verification", u, NoneVal, NoneVal,
                                "AUTHENTICATION_ERROR")
            /\ UNCHANGED verifications
       ELSE IF users[u].email_verified
       THEN /\ last' = Response("resend_verification", u, NoneVal, NoneVal, "ok")
            /\ UNCHANGED verifications
       ELSE IF TokenTaken(verifications, tok)
       THEN /\ last' = Response("resend_verification", u, NoneVal, NoneVal,
                                "INTERNAL_ERROR")
            /\ UNCHANGED verifications
       ELSE /\ verifications' =
                  Append(verifications, NewTokenRow(u, tok, VerificationExpireHours))
            /\ last' = Response("resend_verification", u, NoneVal, NoneVal, "ok")
    /\ UNCHANGED <<users, sessions, resets, notAccount>>

\* POST /auth/password-reset
request_password_reset(e) ==
    /\ Len(resets) < MaxTokens
    /\ LET found == UsersByEmail(e)
           u == IF found = {} THEN NoneVal ELSE CHOOSE x \in found : TRUE
           tok == create_password_reset_token(e) IN
       IF found = {}
       THEN /\ last' = Response("request_password_reset", NoneVal, NoneVal, e, "ok")
            /\ UNCHANGED resets
       ELSE IF TokenTaken(resets, tok)
       THEN /\ last' = Response("request_password_reset", u, NoneVal, e,
                                "INTERNAL_ERROR")
            /\ UNCHANGED resets
       ELSE /\ resets' = Append(resets, NewTokenRow(u, tok, ResetExpireHours))
            /\ last' = Response("request_password_reset", u, NoneVal, e, "ok")
    /\ UNCHANGED <<users, sessions, verifications, notAccount>>

\* POST /auth/password-reset/confirm
confirm_password_reset(tok, pw) ==
    /\ LET email == verify_password_reset_token(tok)
           found == UsersByEmail(email)
           u == IF found = {} THEN NoneVal ELSE CHOOSE x \in found : TRUE IN
       IF email = NoEmail
       THEN /\ last' = Response("confirm_password_reset", NoneVal, pw, tok,
                                "VALIDATION_ERROR")
            /\ UNCHANGED <<users, sessions, resets>>
       ELSE IF found = {}
       THEN /\ last' = Response("confirm_password_reset", NoneVal, pw, tok,
                                "NOT_FOUND")
            /\ UNCHANGED <<users, sessions, resets>>
       ELSE /\ users' = [users EXCEPT ![u].password_hash = hash_password(pw)]
            /\ resets' = MarkUsed(resets, u, tok)
            /\ sessions' = RevokeAllOf(u)
            /\ last' = Response("confirm_password_reset", u, pw, tok, "ok")
    /\ UNCHANGED <<verifications, notAccount>>

\* ======================================================= admin back office
\* select(User).where(User.email == e): deleted accounts included
AnyUserByEmail(e) == {u \in UserIds : users[u].email = e}

\* AdminAuth.login: the form of the back office
admin_login(c, e, pw) ==
    /\ LET found == AnyUserByEmail(e)
           u == IF found = {} THEN NoneVal ELSE CHOOSE x \in found : TRUE IN
       IF found = {}
       THEN /\ last' = Response("admin_login", NoneVal, c, NoneVal, "LOGIN_FAILED")
            /\ UNCHANGED admin_sessions
       ELSE IF ~verify_password(pw, users[u].password_hash)
       THEN /\ last' = Response("admin_login", u, c, NoneVal, "LOGIN_FAILED")
            /\ UNCHANGED admin_sessions
       ELSE IF users[u].role # "admin"
       THEN /\ last' = Response("admin_login", u, c, NoneVal, "LOGIN_FAILED")
            /\ UNCHANGED admin_sessions
       ELSE /\ admin_sessions' = [admin_sessions EXCEPT ![c] = u]
            /\ last' = Response("admin_login", u, c, NoneVal, "ok")
    /\ UNCHANGED <<now, authVars, ads, chatVars, billingVars, reports, favVars,
                 tokenVars, wsVars, categories, dialog_requests>>

\* AdminAuth.logout
admin_logout(c) ==
    /\ admin_sessions' = [admin_sessions EXCEPT ![c] = NoneVal]
    /\ last' = Response("admin_logout", admin_sessions[c], c, NoneVal, "ok")
    /\ UNCHANGED <<now, authVars, ads, chatVars, billingVars, reports, favVars,
                 tokenVars, wsVars, categories, dialog_requests>>

authenticate_any(c) == admin_sessions[c] # NoneVal

\* AdminAuth.authenticate: the value it returns
authenticate(c) ==
    LET user_id == admin_sessions[c] IN
    IF user_id = NoneVal THEN FALSE
    ELSE IF user_id \notin UserIds THEN FALSE
    ELSE IF users[user_id].role # "admin" THEN FALSE
    ELSE IF ~users[user_id].is_active THEN FALSE
    ELSE TRUE

\* AdminAuth.authenticate: the session it leaves (request.session.clear())
SessionAfterAuthenticate(c) ==
    [admin_sessions EXCEPT ![c] = IF authenticate(c) THEN @ ELSE NoneVal]

\* the columns of the UserAdmin form that the model follows
UserFormFields == {"role", "is_active"}

\* UserAdmin edit: one column of one account gets a new value
EditUser(u, field, value) ==
    IF field = "role" THEN [users EXCEPT ![u].role = value]
    ELSE [users EXCEPT ![u].is_active = (value = "true")]

\* a request to the back office that edits a user (UserAdmin, can_edit)
admin_edit_user(c, u, field, value) ==
    /\ admin_sessions' = SessionAfterAuthenticate(c)
    /\ IF ~authenticate(c)
       THEN /\ last' = Response("admin_edit_user", admin_sessions[c], u, c,
                                "LOGIN_REQUIRED")
            /\ UNCHANGED users
       ELSE IF u \notin UserIds
       THEN /\ last' = Response("admin_edit_user", admin_sessions[c], u, c,
                                "NOT_FOUND")
            /\ UNCHANGED users
       ELSE /\ users' = EditUser(u, field, value)
            /\ last' = Response("admin_edit_user", admin_sessions[c], u, c, "ok")
    /\ UNCHANGED <<now, sessions, requests, exchanged, ads, chatVars,
                 billingVars, reports, favVars, tokenVars, wsVars, categories,
                 dialog_requests>>

\* a request to the back office that deletes a user (UserAdmin, can_delete);
\* the sessions of the account go with it (cascade): their rows stay in the
\* sequence, revoked, so that the other refresh tokens keep their numbers
admin_delete_user(c, u) ==
    /\ admin_sessions' = SessionAfterAuthenticate(c)
    /\ IF ~authenticate(c)
       THEN /\ last' = Response("admin_delete_user", admin_sessions[c], u, c,
                                "LOGIN_REQUIRED")
            /\ UNCHANGED <<users, sessions>>
       ELSE IF u \notin UserIds
       THEN /\ last' = Response("admin_delete_user", admin_sessions[c], u, c,
                                "NOT_FOUND")
            /\ UNCHANGED <<users, sessions>>
       ELSE /\ users' = [users EXCEPT ![u].present = FALSE]
            /\ sessions' = RevokeAllOf(u)
            /\ last' = Response("admin_delete_user", admin_sessions[c], u, c, "ok")
    /\ UNCHANGED <<now, requests, exchanged, ads, chatVars,
                 billingVars, reports, favVars, tokenVars, wsVars, categories,
                 dialog_requests>>

\* a request to the back office that lists users (UserAdmin, list view)
admin_list_users(c) ==
    /\ admin_sessions' = SessionAfterAuthenticate(c)
    /\ last' = Response("admin_list_users", admin_sessions[c], NoneVal, c,
                        IF authenticate(c) THEN "ok" ELSE "LOGIN_REQUIRED")
    /\ UNCHANGED <<now, authVars, ads, chatVars, billingVars, reports, favVars,
                 tokenVars, wsVars, categories, dialog_requests>>

\* PATCH /users/{user_id}/role by an admin
update_user_role(admin, u, new_role) ==
    /\ IF ~get_current_user(admin)
       THEN /\ last' = Response("update_user_role", admin, u, new_role,
                                "AUTHENTICATION_ERROR")
            /\ UNCHANGED users
       ELSE IF users[admin].role # "admin"
       THEN /\ last' = Response("update_user_role", admin, u, new_role,
                                "AUTHORIZATION_ERROR")
            /\ UNCHANGED users
       ELSE IF u \notin UserIds \/ users[u].deleted
       THEN /\ last' = Response("update_user_role", admin, u, new_role, "NOT_FOUND")
            /\ UNCHANGED users
       ELSE IF u = admin
       THEN /\ last' = Response("update_user_role", admin, u, new_role,
                                "VALIDATION_ERROR")
            /\ UNCHANGED users
       ELSE /\ users' = [users EXCEPT ![u].role = new_role]
            /\ last' = Response("update_user_role", admin, u, new_role, "ok")
    /\ UNCHANGED <<now, sessions, requests, exchanged, ads, chatVars,
                 billingVars, reports, otherVars>>

\* ============================================================== categories
\* the value of a field that the request body leaves out
Unset == -2

\* the slug of a body that carries "slug": null
NullSlug == "null"

\* the rows of the categories table
CategoryIds == {c \in 1..Len(categories) : categories[c].present}

\* select(Category).where(Category.slug == slug), without the row `except`
CategoriesBySlug(slug, except) ==
    {c \in CategoryIds : categories[c].slug = slug /\ c # except}

\* Category(**category_data.model_dump(), level=level)
NewCategory(slug, parent, level) ==
    [present |-> TRUE, slug |-> slug, parent_id |-> parent, level |-> level]

\* the categories below the ones of S, S included: the rows that the cascade
\* of the children relationship deletes with them
RECURSIVE Subtree(_, _)
Subtree(S, n) ==
    IF n = 0 THEN S
    ELSE Subtree(S \cup {c \in CategoryIds : categories[c].parent_id \in S}, n - 1)

\* POST /categories/ by an admin
create_category(admin, slug, parent) ==
    /\ Len(categories) < MaxCategories
    /\ IF users[admin].role # "admin"
       THEN /\ last' = Response("create_category", admin, NoneVal, slug,
                                "AUTHORIZATION_ERROR")
            /\ UNCHANGED categories
       ELSE IF CategoriesBySlug(slug, NoneVal) # {}
       THEN /\ last' = Response("create_category", admin, NoneVal, slug, "CONFLICT")
            /\ UNCHANGED categories
       ELSE IF parent \notin {NoneVal, 0} /\ parent \notin CategoryIds
       THEN /\ last' = Response("create_category", admin, NoneVal, slug, "NOT_FOUND")
            /\ UNCHANGED categories
       ELSE IF parent = 0
       THEN \* parent_id 0 is falsy: level 0, and the foreign key fails
            /\ last' = Response("create_category", admin, NoneVal, slug,
                                "INTERNAL_ERROR")
            /\ UNCHANGED categories
       ELSE /\ categories' =
                  Append(categories,
                         NewCategory(slug, parent,
                                     IF parent = NoneVal THEN 0
                                     ELSE categories[parent].level + 1))
            /\ last' = Response("create_category", admin, Len(categories) + 1,
                                slug, "ok")
    /\ UNCHANGED <<now, authVars, ads, chatVars, billingVars, reports, favVars,
                 tokenVars, wsVars, admin_sessions, dialog_requests>>

\* update_category: the level that goes with the new parent
parent_level(parent) ==
    IF parent \in {NoneVal, 0} THEN 0 ELSE categories[parent].level + 1

\* PATCH /categories/{category_id} by an admin; slug and parent are the
\* fields of the body, Unset when the body leaves them out
update_category(admin, c, slug, parent) ==
    /\ IF users[admin].role # "admin"
       THEN /\ last' = Response("update_category", admin, c, slug,
                                "AUTHORIZATION_ERROR")
            /\ UNCHANGED categories
       ELSE IF c \notin CategoryIds
       THEN /\ last' = Response("update_category", admin, c, slug, "NOT_FOUND")
            /\ UNCHANGED categories
       ELSE IF slug # "unset" /\ CategoriesBySlug(slug, c) # {}
       THEN /\ last' = Response("update_category", admin, c, slug, "CONFLICT")
            /\ UNCHANGED categories
       ELSE IF parent \notin {Unset, NoneVal, 0} /\ parent \notin CategoryIds
       THEN /\ last' = Response("update_category", admin, c, slug, "NOT_FOUND")
            /\ UNCHANGED categories
       ELSE IF slug = NullSlug \/ parent = 0
       THEN \* NOT NULL on slug or the foreign key of parent_id fails at commit
            /\ last' = Response("update_category", admin, c, slug, "INTERNAL_ERROR")
            /\ UNCHANGED categories
       ELSE /\ parent # Unset => parent_level(parent) <= MaxLevel
            /\ categories' = [categories EXCEPT ![c] =
                  [@ EXCEPT !.slug = IF slug = "unset" THEN @ ELSE slug,
                            !.parent_id = IF parent = Unset THEN @ ELSE parent,
                            !.level = IF parent = Unset THEN @
                                      ELSE parent_level(parent)]]
            /\ last' = Response("update_category", admin, c, slug, "ok")
    /\ UNCHANGED <<now, authVars, ads, chatVars, billingVars, reports, favVars,
                 tokenVars, wsVars, admin_sessions, dialog_requests>>

\* DELETE /categories/{category_id} by an admin: the row and, through the
\* cascade, every category below it
delete_category(admin, c) ==
    /\ IF users[admin].role # "admin"
       THEN /\ last' = Response("delete_category", admin, c, NoneVal,
                                "AUTHORIZATION_ERROR")
            /\ UNCHANGED categories
       ELSE IF c \notin CategoryIds
       THEN /\ last' = Response("delete_category", admin, c, NoneVal, "NOT_FOUND")
            /\ UNCHANGED categories
       ELSE /\ categories' =
                  [i \in 1..Len(categories) |->
                      IF i \in Subtree({c}, Len(categories))
                      THEN [categories[i] EXCEPT !.present = FALSE]
                      ELSE categories[i]]
            /\ last' = Response("delete_category", admin, c, NoneVal, "ok")
    /\ UNCHANGED <<now, authVars, ads, chatVars, billingVars, reports, favVars,
                 tokenVars, wsVars, admin_sessions, dialog_requests>>

\* ==================================================================== chat
\* Dialog.is_participant
is_participant_any(d, u) == TRUE

is_participant(d, u) == u \in {d.seller_id, d.buyer_id}

\* Dialog.is_blocked
is_blocked(d) == d.seller_blocked_buyer \/ d.buyer_blocked_seller

\* Dialog.get_other_user_id
get_other_user_id(d, u) == IF u = d.seller_id THEN d.buyer_id ELSE d.seller_id

\* Dialog.get_unread_count
get_unread_count(d, u) ==
    IF u = d.seller_id THEN d.seller_unread_count ELSE d.buyer_unread_count

\* Dialog.reset_unread_count
reset_unread_count(d, u) ==
    IF u = d.seller_id THEN [d EXCEPT !.seller_unread_count = 0]
    ELSE [d EXCEPT !.buyer_unread_count = 0]

increment_unread_count_both(d, u) ==
    [d EXCEPT !.seller_unread_count = @ + 1, !.buyer_unread_count = @ + 1]

\* Dialog.increment_unread_count
increment_unread_count(d, u) ==
    IF u = d.seller_id THEN [d EXCEPT !.seller_unread_count = @ + 1]
    ELSE [d EXCEPT !.buyer_unread_count = @ + 1]

\* Message.mark_as_read
mark_as_read(m) ==
    IF ~m.is_read THEN [m EXCEPT !.is_read = TRUE, !.read_at = now] ELSE m

\* Dialog(ad_id=, seller_id=, buyer_id=) with the column defaults
NewDialog(a, seller, buyer) ==
    [ad_id |-> a, seller_id |-> seller, buyer_id |-> buyer,
     last_message_id |-> NoneVal, last_message_at |-> NoneVal,
     last_message_text |-> NoneVal,
     seller_unread_count |-> 0, buyer_unread_count |-> 0,
     is_seller_deleted |-> FALSE, is_buyer_deleted |-> FALSE,
     seller_blocked_buyer |-> FALSE, buyer_blocked_seller |-> FALSE]

\* Message(dialog_id=, sender_id=, text=) with the column defaults
NewMessage(d, u, text) ==
    [dialog_id |-> d, sender_id |-> u, text |-> text, created_at |-> now,
     is_read |-> FALSE, read_at |-> NoneVal, is_delivered |-> FALSE]

\* text[:255]
Slice255(text) == IF text > PreviewLen THEN PreviewLen ELSE text

\* the ad row of id a that is not soft-deleted, if any
AdExists(a) == a \in 1..Len(ads) /\ ~ads[a].deleted

\* the ids of the dialogs of (ad, seller, buyer)
DialogsOf(a, seller, buyer) ==
    {i \in 1..Len(dialogs) : /\ dialogs[i].ad_id = a
                             /\ dialogs[i].seller_id = seller
                             /\ dialogs[i].buyer_id = buyer}

MessagesOf(d) == {i \in 1..Len(messages) : messages[i].dialog_id = d}

\* marks as read, for the reader u, the messages of ids
MarkRead(ids, u) ==
    [i \in 1..Len(messages) |->
        IF i \in ids /\ messages[i].sender_id # u /\ ~messages[i].is_read
        THEN mark_as_read(messages[i]) ELSE messages[i]]

\* POST /chat/dialogs: get_or_create_dialog and the optional initial message
create_dialog(u, a, text) ==
    /\ IF ~AdExists(a)
       THEN /\ last' = Response("create_dialog", u, NoneVal, text, "NOT_FOUND")
            /\ UNCHANGED chatVars
       ELSE IF ads[a].user_id = u
       THEN /\ last' = Response("create_dialog", u, NoneVal, text, "VALIDATION_ERROR")
            /\ UNCHANGED chatVars
       ELSE
         LET seller == ads[a].user_id
             found == DialogsOf(a, seller, u)
             d == IF found = {} THEN Len(dialogs) + 1 ELSE CHOOSE i \in found : TRUE
             ds == IF found = {} THEN Append(dialogs, NewDialog(a, seller, u))
                   ELSE dialogs
         IN
         /\ found = {} => Len(dialogs) < MaxDialogs
         /\ IF text # TextNone
            THEN /\ Len(messages) < MaxMessages
                 /\ messages' = Append(messages, NewMessage(d, u, text))
                 /\ dialogs' = [ds EXCEPT ![d] =
                       increment_unread_count(
                          [@ EXCEPT !.last_message_id = Len(messages) + 1,
                                    !.last_message_at = now,
                                    !.last_message_text = Slice255(text)],
                          ds[d].seller_id)]
            ELSE /\ dialogs' = ds
                 /\ UNCHANGED messages
         /\ last' = Response("create_dialog", u, d, text, "ok")
    /\ UNCHANGED notChat

\* a POST /chat/dialogs request that is not under way
IdleRequest ==
    [pc |-> "idle", user |-> NoneVal, ad |-> NoneVal, text |-> TextNone]

\* POST /chat/dialogs, first part: get_or_create_dialog up to the SELECT of
\* the existing dialog, which sees the rows committed so far
create_dialog_select(r, u, a, text) ==
    /\ dialog_requests[r].pc = "idle"
    /\ IF ~AdExists(a)
       THEN /\ last' = Response("create_dialog", u, NoneVal, text, "NOT_FOUND")
            /\ UNCHANGED dialog_requests
       ELSE IF ads[a].user_id = u
       THEN /\ last' = Response("create_dialog", u, NoneVal, text, "VALIDATION_ERROR")
            /\ UNCHANGED dialog_requests
       ELSE IF Cardinality(DialogsOf(a, ads[a].user_id, u)) > 1
       THEN \* scalar_one_or_none() raises MultipleResultsFound
            /\ last' = Response("create_dialog", u, NoneVal, text, "INTERNAL_ERROR")
            /\ UNCHANGED dialog_requests
       ELSE /\ dialog_requests' = [dialog_requests EXCEPT ![r] =
                  [pc |-> IF DialogsOf(a, ads[a].user_id, u) = {}
                          THEN "insert" ELSE "found",
                   user |-> u, ad |-> a, text |-> text]]
            /\ last' = Response("create_dialog_select", u, NoneVal, text, "ok")
    /\ UNCHANGED <<now, authVars, ads, chatVars, billingVars, reports, favVars,
                 tokenVars, wsVars, admin_sessions, categories>>

\* POST /chat/dialogs, second part: the INSERT of the dialog the SELECT did
\* not find, the initial message and the commit
create_dialog_commit(r) ==
    /\ dialog_requests[r].pc \in {"insert", "found"}
    /\ LET u == dialog_requests[r].user
           a == dialog_requests[r].ad
           text == dialog_requests[r].text
           seller == ads[a].user_id
           found == DialogsOf(a, seller, u)
           d == IF dialog_requests[r].pc = "insert" THEN Len(dialogs) + 1
                ELSE CHOOSE i \in found : TRUE
           ds == IF dialog_requests[r].pc = "insert"
                 THEN Append(dialogs, NewDialog(a, seller, u))
                 ELSE dialogs
       IN
       /\ dialog_requests[r].pc = "insert" => Len(dialogs) < MaxRaceDialogs
       /\ IF text # TextNone
          THEN /\ Len(messages) < MaxMessages
               /\ messages' = Append(messages, NewMessage(d, u, text))
               /\ dialogs' = [ds EXCEPT ![d] =
                     increment_unread_count(
                        [@ EXCEPT !.last_message_id = Len(messages) + 1,
                                  !.last_message_at = now,
                                  !.last_message_text = Slice255(text)],
                        ds[d].seller_id)]
          ELSE /\ dialogs' = ds
               /\ UNCHANGED messages
       /\ last' = Response("create_dialog", u, d, text, "ok")
    /\ dialog_requests' = [dialog_requests EXCEPT ![r] = IdleRequest]
    /\ UNCHANGED <<now, authVars, ads, billingVars, reports, favVars,
                 tokenVars, wsVars, admin_sessions, categories>>

\* GET /chat/dialogs/{dialog_id}
get_dialog(u, d) ==
    /\ IF d \notin 1..Len(dialogs)
       THEN /\ last' = Response("get_dialog", u, d, NoneVal, "NOT_FOUND")
            /\ UNCHANGED chatVars
       ELSE IF ~is_participant(dialogs[d], u)
       THEN /\ last' = Response("get_dialog", u, d, NoneVal, "AUTHORIZATION_ERROR")
            /\ UNCHANGED chatVars
       ELSE IF \/ (u = dialogs[d].seller_id /\ dialogs[d].is_seller_deleted)
               \/ (u = dialogs[d].buyer_id /\ dialogs[d].is_buyer_deleted)
       THEN /\ last' = Response("get_dialog", u, d, NoneVal, "NOT_FOUND")
            /\ UNCHANGED chatVars
       ELSE /\ dialogs' = [dialogs EXCEPT ![d] = reset_unread_count(@, u)]
            /\ messages' = MarkRead(MessagesOf(d), u)
            /\ last' = Response("get_dialog", u, d, NoneVal, "ok")
    /\ UNCHANGED notChat

\* DELETE /chat/dialogs/{dialog_id}
delete_dialog(u, d) ==
    /\ IF d \notin 1..Len(dialogs)
       THEN /\ last' = Response("delete_dialog", u, d, NoneVal, "NOT_FOUND")
            /\ UNCHANGED chatVars
       ELSE IF ~is_participant(dialogs[d], u)
       THEN /\ last' = Response("delete_dialog", u, d, NoneVal, "AUTHORIZATION_ERROR")
            /\ UNCHANGED chatVars
       ELSE /\ dialogs' = [dialogs EXCEPT ![d] =
                  IF u = @.seller_id THEN [@ EXCEPT !.is_seller_deleted = TRUE]
                  ELSE [@ EXCEPT !.is_buyer_deleted = TRUE]]
            /\ UNCHANGED messages
            /\ last' = Response("delete_dialog", u, d, NoneVal, "ok")
    /\ UNCHANGED notChat

\* POST /chat/dialogs/{dialog_id}/messages
send_message(u, d, text) ==
    /\ IF d \notin 1..Len(dialogs)
       THEN /\ last' = Response("send_message", u, d, NoneVal, "NOT_FOUND")
            /\ UNCHANGED chatVars
       ELSE IF ~is_participant(dialogs[d], u)
       THEN /\ last' = Response("send_message", u, d, NoneVal, "AUTHORIZATION_ERROR")
            /\ UNCHANGED chatVars
       ELSE IF is_blocked(dialogs[d])
       THEN /\ last' = Response("send_message", u, d, NoneVal, "VALIDATION_ERROR")
            /\ UNCHANGED chatVars
       ELSE /\ Len(messages) < MaxMessages
            /\ messages' = Append(messages, NewMessage(d, u, text))
            /\ LET d1 == [dialogs[d] EXCEPT
                             !.last_message_id = Len(messages) + 1,
                             !.last_message_at = now,
                             !.last_message_text =
                                 IF text # TextNone THEN Slice255(text)
                                 ELSE AttachmentPreview]
                   d2 == increment_unread_count(d1, get_other_user_id(d1, u))
                   d3 == IF u = d2.seller_id
                         THEN [d2 EXCEPT !.is_seller_deleted = FALSE]
                         ELSE [d2 EXCEPT !.is_buyer_deleted = FALSE]
               IN dialogs' = [dialogs EXCEPT ![d] = d3]
            /\ last' = Response("send_message", u, d, text, "ok")
    /\ UNCHANGED notChat

\* the page of GET .../messages: the ids below before_id, newest first, limit
Page(d, before_id, limit) ==
    LET c == {i \in MessagesOf(d) : before_id = NoneVal \/ i < before_id}
    IN {i \in c : Cardinality({j \in c : j > i}) < limit}

\* GET /chat/dialogs/{dialog_id}/messages
get_messages(u, d, before_id, limit) ==
    /\ IF d \notin 1..Len(dialogs)
       THEN /\ last' = Response("get_messages", u, d, NoneVal, "NOT_FOUND")
            /\ UNCHANGED chatVars
       ELSE IF ~is_participant(dialogs[d], u)
       THEN /\ last' = Response("get_messages", u, d, NoneVal, "AUTHORIZATION_ERROR")
            /\ UNCHANGED chatVars
       ELSE /\ messages' = MarkRead(Page(d, before_id, limit), u)
            /\ dialogs' = [dialogs EXCEPT ![d] = reset_unread_count(@, u)]
            /\ last' = Response("get_messages", u, d, NoneVal, "ok")
    /\ UNCHANGED notChat

\* POST /chat/dialogs/{dialog_id}/read
mark_dialog_read(u, d) ==
    /\ IF d \notin 1..Len(dialogs)
       THEN /\ last' = Response("mark_dialog_read", u, d, NoneVal, "NOT_FOUND")
            /\ UNCHANGED chatVars
       ELSE IF ~is_participant(dialogs[d], u)
       THEN /\ last' = Response("mark_dialog_read", u, d, NoneVal, "AUTHORIZATION_ERROR")
            /\ UNCHANGED chatVars
       ELSE /\ dialogs' = [dialogs EXCEPT ![d] = reset_unread_count(@, u)]
            /\ messages' = MarkRead(MessagesOf(d), u)
            /\ last' = Response("mark_dialog_read", u, d, NoneVal, "ok")
    /\ UNCHANGED notChat

\* POST /chat/dialogs/{dialog_id}/block
block_user_in_dialog(u, d) ==
    /\ IF d \notin 1..Len(dialogs)
       THEN /\ last' = Response("block_in_dialog", u, d, NoneVal, "NOT_FOUND")
            /\ UNCHANGED chatVars
       ELSE IF ~is_participant(dialogs[d], u)
       THEN /\ last' = Response("block_in_dialog", u, d, NoneVal, "AUTHORIZATION_ERROR")
            /\ UNCHANGED chatVars
       ELSE /\ dialogs' = [dialogs EXCEPT ![d] =
                  IF u = @.seller_id THEN [@ EXCEPT !.seller_blocked_buyer = TRUE]
                  ELSE [@ EXCEPT !.buyer_blocked_seller = TRUE]]
            /\ UNCHANGED messages
            /\ last' = Response("block_in_dialog", u, d, NoneVal, "ok")
    /\ UNCHANGED notChat

\* POST /chat/dialogs/{dialog_id}/unblock
unblock_user_in_dialog(u, d) ==
    /\ IF d \notin 1..Len(dialogs)
       THEN /\ last' = Response("unblock_in_dialog", u, d, NoneVal, "NOT_FOUND")
            /\ UNCHANGED chatVars
       ELSE IF ~is_participant(dialogs[d], u)
       THEN /\ last' = Response("unblock_in_dialog", u, d, NoneVal, "AUTHORIZATION_ERROR")
            /\ UNCHANGED chatVars
       ELSE /\ dialogs' = [dialogs EXCEPT ![d] =
                  IF u = @.seller_id THEN [@ EXCEPT !.seller_blocked_buyer = FALSE]
                  ELSE [@ EXCEPT !.buyer_blocked_seller = FALSE]]
            /\ UNCHANGED messages
            /\ last' = Response("unblock_in_dialog", u, d, NoneVal, "ok")
    /\ UNCHANGED notChat

\* handle_websocket_message, frame {"type": "message", dialog_id, text} on a
\* connection of u; text is not empty.  The Message is added without a
\* flush, so message.id and message.created_at are still None when they are
\* copied to the dialog; a frame for an unknown dialog or from a
\* non-participant is dropped without an answer.
ws_message(u, d, text) ==
    /\ text # TextNone
    /\ IF d \notin 1..Len(dialogs) \/ ~is_participant(dialogs[d], u)
       THEN /\ last' = Response("ws_message", u, d, NoneVal, "ignored")
            /\ UNCHANGED chatVars
       ELSE IF is_blocked(dialogs[d])
       THEN /\ last' = Response("ws_message", u, d, NoneVal, "error")
            /\ UNCHANGED chatVars
       ELSE /\ Len(messages) < MaxMessages
            /\ messages' = Append(messages, NewMessage(d, u, text))
            /\ LET d1 == [dialogs[d] EXCEPT
                             !.last_message_id = NoneVal,
                             !.last_message_at = NoneVal,
                             !.last_message_text = Slice255(text)]
               IN dialogs' = [dialogs EXCEPT ![d] =
                      increment_unread_count(d1, get_other_user_id(d1, u))]
            /\ last' = Response("ws_message", u, d, text, "ok")
    /\ UNCHANGED notChat

\* handle_websocket_message, frame {"type": "mark_read", dialog_id,
\* message_ids} on a connection of u; message_ids is not empty
ws_mark_read(u, d, ids) ==
    /\ ids # {}
    /\ IF d \notin 1..Len(dialogs) \/ ~is_participant(dialogs[d], u)
       THEN /\ last' = Response("ws_mark_read", u, d, NoneVal, "ignored")
            /\ UNCHANGED chatVars
       ELSE /\ messages' = MarkRead(ids \cap MessagesOf(d), u)
            /\ dialogs' = [dialogs EXCEPT ![d] = reset_unread_count(@, u)]
            /\ last' = Response("ws_mark_read", u, d, NoneVal, "ok")
    /\ UNCHANGED notChat

\* ============================================================== websocket
\* a WebSocket on which no websocket_chat coroutine runs
NoConnection == [pc |-> "none", user_id |-> NoneVal]

\* a dict without the key k
DelKey(f, k) == [x \in DOMAIN f \ {k} |-> f[x]]

\* ConnectionManager.is_user_online
is_user_online(u) ==
    /\ u \in DOMAIN manager.active_connections
    /\ Len(manager.active_connections[u]) > 0

locked_never == FALSE

\* asyncio.Lock.locked of ConnectionManager._lock: `async with self._lock`
\* waits while it holds
locked == manager.lock # NoneVal

DiscardSubscriber_keep(subs, u) == subs

\* the loop at the end of ConnectionManager.disconnect: the user leaves every
\* subscriber set, and a set that becomes empty is deleted
DiscardSubscriber(subs, u) ==
    LET kept == {d \in DOMAIN subs : subs[d] \ {u} # {}}
    IN  [d \in kept |-> subs[d] \ {u}]

\* websocket_chat up to the first await of ConnectionManager.connect:
\* authenticate_websocket, then websocket.accept()
websocket_chat(c, u) ==
    /\ connections[c].pc = "none"
    /\ IF ~get_current_user(u)
       THEN /\ last' = Response("websocket_chat", u, c, NoneVal, "closed_4001")
            /\ UNCHANGED connections
       ELSE /\ connections' = [connections EXCEPT
                                  ![c] = [pc |-> "connect", user_id |-> u]]
            /\ last' = Response("websocket_chat", u, c, NoneVal, "accepted")
    /\ UNCHANGED <<now, authVars, ads, chatVars, billingVars, reports, favVars,
                 tokenVars, admin_sessions, categories, dialog_requests,
                 manager>>

\* ConnectionManager.connect from `async with self._lock` on; the handler
\* then sends the "connected" frame and listens
connect(c) ==
    /\ connections[c].pc = "connect"
    /\ ~locked
    /\ LET u == connections[c].user_id
           ac == manager.active_connections
       IN  /\ manager' = [manager EXCEPT !.active_connections =
                             IF u \in DOMAIN ac
                             THEN [ac EXCEPT ![u] = Append(@, c)]
                             ELSE ac @@ (u :> <<c>>)]
           /\ last' = Response("connect", u, c, NoneVal, "connected")
    /\ connections' = [connections EXCEPT ![c].pc = "open"]
    /\ UNCHANGED <<now, authVars, ads, chatVars, billingVars, reports, favVars,
                 tokenVars, admin_sessions, categories, dialog_requests>>

\* handle_websocket_message, frame {"type": "subscribe", dialog_id} and
\* ConnectionManager.subscribe_to_dialog
ws_subscribe(c, d) ==
    /\ connections[c].pc = "open"
    /\ ~locked
    /\ LET u == connections[c].user_id
           subs == manager.dialog_subscribers
       IN  IF d \in 1..Len(dialogs) /\ is_participant(dialogs[d], u)
           THEN /\ manager' = [manager EXCEPT !.dialog_subscribers =
                                  IF d \in DOMAIN subs
                                  THEN [subs EXCEPT ![d] = @ \cup {u}]
                                  ELSE subs @@ (d :> {u})]
                /\ last' = Response("ws_subscribe", u, c, d, "subscribed")
           ELSE /\ last' = Response("ws_subscribe", u, c, d, "ignored")
                /\ UNCHANGED manager
    /\ UNCHANGED <<now, authVars, ads, chatVars, billingVars, reports, favVars,
                 tokenVars, admin_sessions, categories, dialog_requests,
                 connections>>

\* handle_websocket_message, frame {"type": "unsubscribe", dialog_id} and
\* ConnectionManager.unsubscribe_from_dialog
ws_unsubscribe(c, d) ==
    /\ connections[c].pc = "open"
    /\ ~locked
    /\ LET u == connections[c].user_id
           subs == manager.dialog_subscribers
       IN  /\ manager' = [manager EXCEPT !.dialog_subscribers =
                             IF d \in DOMAIN subs
                             THEN [subs EXCEPT ![d] = @ \ {u}]
                             ELSE subs]
           /\ last' = Response("ws_unsubscribe", u, c, d, "ok")
    /\ UNCHANGED <<now, authVars, ads, chatVars, billingVars, reports, favVars,
                 tokenVars, admin_sessions, categories, dialog_requests,
                 connections>>

\* the receive loop of websocket_chat ends: receive_text raises
\* WebSocketDisconnect (the client closed, or the server noticed the lost
\* network) or the handling of a frame raises an Exception; both except
\* clauses call manager.disconnect(connection)
websocket_chat_ends(c, why) ==
    /\ connections[c].pc = "open"
    /\ connections' = [connections EXCEPT ![c].pc = "disconnect"]
    /\ last' = Response("websocket_chat_ends", connections[c].user_id, c, why,
                        "ok")
    /\ UNCHANGED <<now, authVars, ads, chatVars, billingVars, reports, favVars,
                 tokenVars, admin_sessions, categories, dialog_requests,
                 manager>>

\* ConnectionManager.disconnect from `async with self._lock` on.  When the
\* connection was the last one of the user the coroutine awaits
\* _set_online_status while it holds the lock; otherwise it runs to the end
\* of the method without an await.
disconnect(c) ==
    /\ connections[c].pc = "disconnect"
    /\ ~locked
    /\ LET u == connections[c].user_id
           ac == manager.active_connections
           rest == SelectSeq(ac[u], LAMBDA x : x # c)
       IN  IF u \in DOMAIN ac /\ rest = <<>>
           THEN /\ manager' = [manager EXCEPT
                                  !.active_connections = DelKey(ac, u),
                                  !.lock = c]
                /\ connections' = [connections EXCEPT ![c].pc = "set_offline"]
                /\ last' = Response("disconnect", u, c, NoneVal, "offline")
           ELSE /\ manager' = [manager EXCEPT
                                  !.active_connections =
                                      IF u \in DOMAIN ac
                                      THEN [ac EXCEPT ![u] = rest] ELSE ac,
                                  !.dialog_subscribers =
                                      DiscardSubscriber(@, u)]
                /\ connections' = [connections EXCEPT ![c] = NoConnection]
                /\ last' = Response("disconnect", u, c, NoneVal, "ok")
    /\ UNCHANGED <<now, authVars, ads, chatVars, billingVars, reports, favVars,
                 tokenVars, admin_sessions, categories, dialog_requests>>

\* ConnectionManager.disconnect after the await of _set_online_status: the
\* subscriber loop and the release of the lock
disconnect_subscribers(c) ==
    /\ connections[c].pc = "set_offline"
    /\ manager' = [manager EXCEPT
                      !.dialog_subscribers =
                          DiscardSubscriber(@, connections[c].user_id),
                      !.lock = NoneVal]
    /\ connections' = [connections EXCEPT ![c] = NoConnection]
    /\ last' = Response("disconnect", connections[c].user_id, c, NoneVal, "ok")
    /\ UNCHANGED <<now, authVars, ads, chatVars, billingVars, reports, favVars,
                 tokenVars, admin_sessions, categories, dialog_requests>>

\* ==================================================================== ads
\* enum AdStatus
AdStatuses ==
    {"draft", "pending", "active", "rejected", "archived", "sold", "expired"}

\* a row of table ads with the column defaults and the given status
NewAd(u, st) ==
    [user_id |-> u, status |-> st, deleted |-> FALSE,
     is_featured |-> FALSE, featured_until |-> NoneVal,
     is_top |-> FALSE, top_until |-> NoneVal, is_urgent |-> FALSE,
     favorites_count |-> 0]

SignificantFields_noprice == {"title", "description", "vin"}

\* the fields of update_ad whose change sends an active ad back to moderation
SignificantFields == {"title", "description", "price", "vin"}

\* the columns of ads among the modelled fields that are nullable=False
NotNullColumns == {"title", "price", "mileage"}

\* an update_dict is a set of <<field, value>> pairs; its keys
Keys(d) == {kv[1] : kv \in d}

require_moderator_any(u) == TRUE

\* RoleChecker([ADMIN, MODERATOR])
require_moderator(u) == users[u].role \in {"admin", "moderator"}

\* User.is_admin
is_admin(u) == users[u].role = "admin"

\* Report(report_type=, target_id=) of report_ad and report_user, with the
\* column defaults
NewReport(type, target) ==
    [report_type |-> type, target_id |-> target, status |-> "pending",
     resolved_by |-> NoneVal, resolved_at |-> NoneVal,
     resolution_note |-> "none"]

\* Report.resolve
resolve(rep, moderator_id, status, note) ==
    [rep EXCEPT !.status = status, !.resolved_by = moderator_id,
                !.resolved_at = now, !.resolution_note = note]

\* POST /ads/ ; req is the status the request body asks for, if any
create_ad(u, req) ==
    /\ IF ~users[u].email_verified
       THEN /\ last' = Response("create_ad", u, NoneVal, req,
                                "AUTHORIZATION_ERROR")
            /\ UNCHANGED ads
       ELSE /\ ads' = Append(ads, NewAd(u, "pending"))
            /\ last' = Response("create_ad", u, Len(ads) + 1, req, "ok")
    /\ UNCHANGED <<reports, notAds>>

\* PATCH /ads/{ad_id}
update_ad(u, a, d) ==
    /\ IF ~AdExists(a)
       THEN /\ last' = Response("update_ad", u, a, Keys(d), "NOT_FOUND")
            /\ UNCHANGED ads
       ELSE IF ads[a].user_id # u /\ ~is_admin(u)
       THEN /\ last' = Response("update_ad", u, a, Keys(d),
                                "AUTHORIZATION_ERROR")
            /\ UNCHANGED ads
       ELSE IF \E kv \in d : kv[2] = "null" /\ kv[1] \in NotNullColumns
       THEN /\ last' = Response("update_ad", u, a, Keys(d), "INTERNAL_ERROR")
            /\ UNCHANGED ads
       ELSE /\ ads' = [ads EXCEPT ![a].status =
                          IF @ = "active"
                             /\ Keys(d) \cap SignificantFields # {}
                          THEN "pending" ELSE @]
            /\ last' = Response("update_ad", u, a, Keys(d), "ok")
    /\ UNCHANGED <<reports, notAds>>

\* DELETE /ads/{ad_id}
delete_ad(u, a) ==
    /\ IF ~AdExists(a)
       THEN /\ last' = Response("delete_ad", u, a, NoneVal, "NOT_FOUND")
            /\ UNCHANGED ads
       ELSE IF ads[a].user_id # u /\ ~is_admin(u)
       THEN /\ last' = Response("delete_ad", u, a, NoneVal,
                                "AUTHORIZATION_ERROR")
            /\ UNCHANGED ads
       ELSE /\ ads' = [ads EXCEPT ![a].deleted = TRUE]
            /\ last' = Response("delete_ad", u, a, NoneVal, "ok")
    /\ UNCHANGED <<reports, notAds>>

\* the owner-only status endpoints archive_ad and mark_as_sold
OwnerSetsStatus(op, u, a, st) ==
    /\ IF ~AdExists(a)
       THEN /\ last' = Response(op, u, a, NoneVal, "NOT_FOUND")
            /\ UNCHANGED ads
       ELSE IF ads[a].user_id # u
       THEN /\ last' = Response(op, u, a, NoneVal, "AUTHORIZATION_ERROR")
            /\ UNCHANGED ads
       ELSE /\ ads' = [ads EXCEPT ![a].status = st]
            /\ last' = Response(op, u, a, NoneVal, "ok")
    /\ UNCHANGED <<reports, notAds>>

\* POST /ads/{ad_id}/archive
archive_ad(u, a) == OwnerSetsStatus("archive_ad", u, a, "archived")

\* POST /ads/{ad_id}/sold
mark_as_sold(u, a) == OwnerSetsStatus("mark_as_sold", u, a, "sold")

\* POST /ads/{ad_id}/republish
republish_ad(u, a) ==
    /\ IF ~AdExists(a)
       THEN /\ last' = Response("republish_ad", u, a, NoneVal, "NOT_FOUND")
            /\ UNCHANGED ads
       ELSE IF ads[a].user_id # u
       THEN /\ last' = Response("republish_ad", u, a, NoneVal,
                                "AUTHORIZATION_ERROR")
            /\ UNCHANGED ads
       ELSE IF ads[a].status \notin {"archived", "expired", "sold"}
       THEN /\ last' = Response("republish_ad", u, a, NoneVal,
                                "VALIDATION_ERROR")
            /\ UNCHANGED ads
       ELSE /\ ads' = [ads EXCEPT ![a].status = "pending"]
            /\ last' = Response("republish_ad", u, a, NoneVal, "ok")
    /\ UNCHANGED <<reports, notAds>>

\* POST /ads/{ad_id}/moderate
moderate_ad(m, a, action) ==
    /\ IF ~require_moderator(m)
       THEN /\ last' = Response("moderate_ad", m, a, action,
                                "AUTHORIZATION_ERROR")
            /\ UNCHANGED ads
       ELSE IF ~AdExists(a)
       THEN /\ last' = Response("moderate_ad", m, a, action, "NOT_FOUND")
            /\ UNCHANGED ads
       ELSE IF ads[a].status # "pending"
       THEN /\ last' = Response("moderate_ad", m, a, action,
                                "VALIDATION_ERROR")
            /\ UNCHANGED ads
       ELSE /\ ads' = [ads EXCEPT ![a].status =
                          CASE action = "approve" -> "active"
                            [] action = "reject" -> "rejected"
                            [] OTHER -> @]
            /\ last' = Response("moderate_ad", m, a, action, "ok")
    /\ UNCHANGED <<reports, notAds>>

\* POST /moderation/reports/ad/{ad_id}
report_ad(u, a) ==
    /\ Len(reports) < MaxReports
    /\ IF ~AdExists(a)
       THEN /\ last' = Response("report_ad", u, a, NoneVal, "NOT_FOUND")
            /\ UNCHANGED reports
       ELSE /\ reports' = Append(reports, NewReport("ad", a))
            /\ last' = Response("report_ad", u, a, NoneVal, "ok")
    /\ UNCHANGED <<ads, notAds>>

\* POST /moderation/reports/user/{user_id}
report_user(u, target) ==
    /\ Len(reports) < MaxReports
    /\ IF ~(target \in UserIds /\ ~users[target].deleted)
       THEN /\ last' = Response("report_user", u, target, NoneVal, "NOT_FOUND")
            /\ UNCHANGED reports
       ELSE IF target = u
       THEN /\ last' = Response("report_user", u, target, NoneVal,
                                "VALIDATION_ERROR")
            /\ UNCHANGED reports
       ELSE /\ reports' = Append(reports, NewReport("user", target))
            /\ last' = Response("report_user", u, target, NoneVal, "ok")
    /\ UNCHANGED <<ads, notAds>>

\* POST /moderation/reports/{report_id}/resolve
resolve_report(m, r, status_value, note) ==
    /\ IF ~require_moderator(m)
       THEN /\ last' = Response("resolve_report", m, r, <<status_value, note>>,
                                "AUTHORIZATION_ERROR")
            /\ UNCHANGED reports
       ELSE IF r \notin 1..Len(reports)
       THEN /\ last' = Response("resolve_report", m, r, <<status_value, note>>,
                                "NOT_FOUND")
            /\ UNCHANGED reports
       ELSE IF reports[r].status \notin {"pending", "reviewing"}
       THEN /\ last' = Response("resolve_report", m, r, <<status_value, note>>,
                                "VALIDATION_ERROR")
            /\ UNCHANGED reports
       ELSE /\ reports' = [reports EXCEPT
                              ![r] = resolve(@, m, status_value, note)]
            /\ last' = Response("resolve_report", m, r, <<status_value, note>>,
                                "ok")
    /\ UNCHANGED <<ads, notAds>>

\* POST /moderation/reports/{report_id}/take-action, for a report on an ad
\* or on a user
take_action_on_report(m, r, action) ==
    /\ IF ~require_moderator(m)
       THEN /\ last' = Response("take_action_on_report", m, r, action,
                                "AUTHORIZATION_ERROR")
            /\ UNCHANGED <<ads, users, reports>>
       ELSE IF r \notin 1..Len(reports)
       THEN /\ last' = Response("take_action_on_report", m, r, action,
                                "NOT_FOUND")
            /\ UNCHANGED <<ads, users, reports>>
       ELSE LET t == reports[r].target_id
            IN  /\ ads' = IF reports[r].report_type = "ad"
                             /\ t \in 1..Len(ads)
                          THEN CASE action = "block_ad" ->
                                      [ads EXCEPT ![t].status = "rejected"]
                                 [] action = "delete_ad" ->
                                      [ads EXCEPT ![t].deleted = TRUE]
                                 [] OTHER -> ads
                          ELSE ads
                /\ users' = IF reports[r].report_type = "user"
                               /\ t \in UserIds
                            THEN CASE action = "block_user" ->
                                        [users EXCEPT ![t].is_blocked = TRUE]
                                   [] action = "unblock_user" ->
                                        [users EXCEPT ![t].is_blocked = FALSE]
                                   [] OTHER -> users
                            ELSE users
                /\ reports' = [reports EXCEPT ![r] =
                                  resolve(@, m, "resolved",
                                          "Action taken: " \o action)]
                /\ last' = Response("take_action_on_report", m, r, action,
                                    "ok")
    /\ UNCHANGED <<now, sessions, requests, exchanged, chatVars, billingVars,
                 otherVars>>

\* the edit form of AdAdmin in the admin back office, which has Ad.status
\* among its form_columns; AdminAuth.authenticate admits active admins
admin_edit_ad(adm, a, st) ==
    /\ IF ~(users[adm].role = "admin" /\ users[adm].is_active)
       THEN /\ last' = Response("admin_edit_ad", adm, a, st,
                                "AUTHENTICATION_ERROR")
            /\ UNCHANGED ads
       ELSE IF a \notin 1..Len(ads)
       THEN /\ last' = Response("admin_edit_ad", adm, a, st, "NOT_FOUND")
            /\ UNCHANGED ads
       ELSE /\ ads' = [ads EXCEPT ![a].status = st]
            /\ last' = Response("admin_edit_ad", adm, a, st, "ok")
    /\ UNCHANGED <<reports, notAds>>

\* ============================================ favorites and comparison
notFav == <<now, authVars, chatVars, billingVars, reports, tokenVars, wsVars,
            admin_sessions, categories, dialog_requests>>

\* Favorite(user_id, ad_id) and Comparison(user_id, ad_id)
Pair(u, a) == [user_id |-> u, ad_id |-> a]

\* the rows of a table for the pair
RowsOf(table, u, a) == {i \in 1..Len(table) : table[i] = Pair(u, a)}

\* db.delete of the row of the pair
WithoutPair(table, u, a) == SelectSeq(table, LAMBDA r : r # Pair(u, a))

IsFavorite_never(u, a) == FALSE

\* the select of the Favorite row of the pair finds one
IsFavorite(u, a) == RowsOf(favorites, u, a) # {}

\* POST /favorites/{ad_id}
add_to_favorites(u, a) ==
    /\ IF ~AdExists(a)
       THEN /\ last' = Response("add_to_favorites", u, a, "no ad",
                                "NOT_FOUND")
            /\ UNCHANGED <<favorites, ads>>
       ELSE IF IsFavorite(u, a)
       THEN /\ last' = Response("add_to_favorites", u, a, "already", "ok")
            /\ UNCHANGED <<favorites, ads>>
       ELSE /\ favorites' = Append(favorites, Pair(u, a))
            /\ ads' = [ads EXCEPT ![a].favorites_count = @ + 1]
            /\ last' = Response("add_to_favorites", u, a, "added", "ok")
    /\ UNCHANGED <<comparisons, notFav>>

\* DELETE /favorites/{ad_id}
remove_from_favorites(u, a) ==
    /\ IF ~IsFavorite(u, a)
       THEN /\ last' = Response("remove_from_favorites", u, a, "absent",
                                "ok")
            /\ UNCHANGED <<favorites, ads>>
       ELSE /\ favorites' = WithoutPair(favorites, u, a)
            /\ ads' = IF a \in 1..Len(ads) /\ ads[a].favorites_count > 0
                      THEN [ads EXCEPT ![a].favorites_count = @ - 1]
                      ELSE ads
            /\ last' = Response("remove_from_favorites", u, a, "removed",
                                "ok")
    /\ UNCHANGED <<comparisons, notFav>>

comparison_count_zero(u) == 0

\* the count query of add_to_comparison
comparison_count(u) == Cardinality({r \in comparisons : r.user_id = u})

\* POST /favorites/comparison/{ad_id}
add_to_comparison(u, a) ==
    /\ IF ~AdExists(a)
       THEN /\ last' = Response("add_to_comparison", u, a, "no ad",
                                "NOT_FOUND")
            /\ UNCHANGED comparisons
       ELSE IF Pair(u, a) \in comparisons
       THEN /\ last' = Response("add_to_comparison", u, a, "already", "ok")
            /\ UNCHANGED comparisons
       ELSE IF comparison_count(u) >= ComparisonLimit
       THEN /\ last' = Response("add_to_comparison", u, a, "full",
                                "CONFLICT")
            /\ UNCHANGED comparisons
       ELSE /\ comparisons' = comparisons \cup {Pair(u, a)}
            /\ last' = Response("add_to_comparison", u, a, "added", "ok")
    /\ UNCHANGED <<favorites, ads, notFav>>

\* DELETE /favorites/comparison/{ad_id}
remove_from_comparison(u, a) ==
    /\ IF Pair(u, a) \notin comparisons
       THEN /\ last' = Response("remove_from_comparison", u, a, "absent",
                                "ok")
            /\ UNCHANGED comparisons
       ELSE /\ comparisons' = comparisons \ {Pair(u, a)}
            /\ last' = Response("remove_from_comparison", u, a, "removed",
                                "ok")
    /\ UNCHANGED <<favorites, ads, notFav>>

\* DELETE /favorites/comparison
clear_comparison(u) ==
    /\ comparisons' = {r \in comparisons : r.user_id # u}
    /\ last' = Response("clear_comparison", u, NoneVal, "cleared", "ok")
    /\ UNCHANGED <<favorites, ads, notFav>>

\* ================================================================ billing
\* table tariffs, by id: one tariff per feature type
Tariffs ==
    << [feature_type |-> "featured", duration_days |-> 1],
       [feature_type |-> "top", duration_days |-> 2],
       [feature_type |-> "urgent", duration_days |-> 1] >>

\* PaymentService.get_tariff finds a row
TariffExists(t) == t \in 1..Len(Tariffs)

\* Payment(...) of PaymentService.create_payment
NewPayment(u, a, t) ==
    [user_id |-> u, status |-> "pending", related_ad_id |-> a,
     related_tariff_id |-> t, provider_transaction_id |-> EmptyTxn,
     completed_at |-> NoneVal, refunded_at |-> NoneVal]

\* Payment.mark_completed
mark_completed(p) == [p EXCEPT !.status = "completed", !.completed_at = now]

\* Payment.refund
payment_refund(p) == [p EXCEPT !.status = "refunded", !.refunded_at = now]

\* AdBoost(...) of PaymentService.confirm_payment
NewBoost(pay, pid) ==
    [ad_id |-> pay.related_ad_id, tariff_id |-> pay.related_tariff_id,
     payment_id |-> pid, is_active |-> FALSE, activated_at |-> NoneVal,
     expires_at |-> NoneVal, refunded_at |-> NoneVal]

\* AdBoost.activate, with self.tariff resolved to the row `tariff`
activate(b, tariff) ==
    [b EXCEPT !.is_active = TRUE, !.activated_at = now,
              !.expires_at = now + tariff.duration_days]

deactivate_noop(b) == b

\* AdBoost.deactivate
deactivate(b) == [b EXCEPT !.is_active = FALSE]

\* AdBoost.refund
boost_refund(b) == [b EXCEPT !.refunded_at = now, !.is_active = FALSE]

\* the flag assignments at the end of PaymentService.confirm_payment
SetFlag(ad, ft, until) ==
    CASE ft = "featured" ->
             [ad EXCEPT !.is_featured = TRUE, !.featured_until = until]
      [] ft = "top" -> [ad EXCEPT !.is_top = TRUE, !.top_until = until]
      [] ft = "urgent" -> [ad EXCEPT !.is_urgent = TRUE]

\* the flag assignments of refund_payment and expire_old_boosts
ClearFlags(ad, fts) ==
    [ad EXCEPT !.is_featured = IF "featured" \in fts THEN FALSE ELSE @,
               !.is_top = IF "top" \in fts THEN FALSE ELSE @,
               !.is_urgent = IF "urgent" \in fts THEN FALSE ELSE @]

\* the promotion flag column of the ad for a feature type
FlagOf(ad, ft) ==
    CASE ft = "featured" -> ad.is_featured
      [] ft = "top" -> ad.is_top
      [] ft = "urgent" -> ad.is_urgent

\* the *_until column of the ad for a feature type; ads has no urgent_until
UntilOf(ad, ft) ==
    CASE ft = "featured" -> ad.featured_until
      [] ft = "top" -> ad.top_until
      [] ft = "urgent" -> NoneVal

\* the unique index on payments.provider_transaction_id rejects the value
TxnTaken(txn, except) ==
    \E q \in 1..Len(payments) :
        q # except /\ payments[q].provider_transaction_id = txn

\* POST /billing/payments
create_payment(u, a, t) ==
    /\ Len(payments) < MaxPayments
    /\ IF ~(a \in 1..Len(ads) /\ ads[a].user_id = u /\ ~ads[a].deleted)
       THEN /\ last' = Response("create_payment", u, NoneVal, a, "NOT_FOUND")
            /\ UNCHANGED payments
       ELSE IF ~TariffExists(t) \/ TxnTaken(EmptyTxn, NoneVal)
       THEN /\ last' = Response("create_payment", u, NoneVal, a,
                                "INTERNAL_ERROR")
            /\ UNCHANGED payments
       ELSE /\ payments' = Append(payments, NewPayment(u, a, t))
            /\ last' = Response("create_payment", u, Len(payments) + 1, a,
                                "ok")
    /\ UNCHANGED <<now, ads, boosts, notBilling>>

\* POST /billing/payments/{id}/confirm and .../confirm-test (txn = None).
\* `resolved` is whether boost.tariff of the AdBoost that was built from ids
\* and not yet added to the session is the Tariff row; when it is None,
\* activate() raises and the request is rolled back.
confirm_payment(u, p, txn, resolved) ==
    /\ Len(boosts) < MaxBoosts
    /\ IF ~(p \in 1..Len(payments) /\ payments[p].user_id = u)
       THEN /\ last' = Response("confirm_payment", u, p, txn, "NOT_FOUND")
            /\ UNCHANGED <<payments, boosts, ads>>
       ELSE IF ~resolved \/ (txn # NoneVal /\ TxnTaken(txn, p))
       THEN /\ last' = Response("confirm_payment", u, p, txn,
                                "INTERNAL_ERROR")
            /\ UNCHANGED <<payments, boosts, ads>>
       ELSE LET pay1 == IF txn # NoneVal
                        THEN [payments[p] EXCEPT
                                 !.provider_transaction_id = txn]
                        ELSE payments[p]
                pay == mark_completed(pay1)
                tariff == Tariffs[pay.related_tariff_id]
                boost == activate(NewBoost(pay, p), tariff)
                a == pay.related_ad_id
            IN  /\ payments' = [payments EXCEPT ![p] = pay]
                /\ boosts' = Append(boosts, boost)
                /\ ads' = [ads EXCEPT ![a] =
                              SetFlag(@, tariff.feature_type,
                                      boost.expires_at)]
                /\ last' = Response("confirm_payment", u, p, txn, "ok")
    /\ UNCHANGED <<now, notBilling>>

\* POST /billing/payments/{id}/refund
refund_payment(u, p) ==
    /\ IF ~(p \in 1..Len(payments) /\ payments[p].user_id = u)
       THEN /\ last' = Response("refund_payment", u, p, NoneVal, "NOT_FOUND")
            /\ UNCHANGED <<payments, boosts, ads>>
       ELSE IF payments[p].status # "completed"
               \/ now - payments[p].completed_at > RefundWindowDays
       THEN /\ last' = Response("refund_payment", u, p, NoneVal,
                                "VALIDATION_ERROR")
            /\ UNCHANGED <<payments, boosts, ads>>
       ELSE LET bs == {b \in 1..Len(boosts) : boosts[b].payment_id = p}
            IN  IF Cardinality(bs) > 1
                THEN /\ last' = Response("refund_payment", u, p, NoneVal,
                                         "INTERNAL_ERROR")
                     /\ UNCHANGED <<payments, boosts, ads>>
                ELSE /\ payments' = [payments EXCEPT
                                        ![p] = payment_refund(@)]
                     /\ IF bs = {}
                        THEN UNCHANGED <<boosts, ads>>
                        ELSE LET b == CHOOSE x \in bs : TRUE
                                 ft == Tariffs[boosts[b].tariff_id]
                                           .feature_type
                             IN  /\ boosts' = [boosts EXCEPT
                                                  ![b] = boost_refund(@)]
                                 /\ ads' = [ads EXCEPT
                                               ![boosts[b].ad_id] =
                                                  ClearFlags(@, {ft})]
                     /\ last' = Response("refund_payment", u, p, NoneVal,
                                         "ok")
    /\ UNCHANGED <<now, notBilling>>

\* the boosts selected by PaymentService.expire_old_boosts
ExpiredBoosts ==
    {b \in 1..Len(boosts) :
        /\ boosts[b].is_active
        /\ boosts[b].expires_at # NoneVal
        /\ boosts[b].expires_at <= now}

\* POST /billing/admin/expire-boosts
expire_old_boosts(admin) ==
    /\ IF users[admin].role # "admin"
       THEN /\ last' = Response("expire_old_boosts", admin, NoneVal, NoneVal,
                                "AUTHORIZATION_ERROR")
            /\ UNCHANGED <<boosts, ads>>
       ELSE /\ boosts' = [b \in DOMAIN boosts |->
                             IF b \in ExpiredBoosts
                             THEN deactivate(boosts[b]) ELSE boosts[b]]
            /\ ads' = [a \in DOMAIN ads |->
                          ClearFlags(ads[a],
                              {Tariffs[boosts[b].tariff_id].feature_type :
                                 b \in {x \in ExpiredBoosts :
                                           boosts[x].ad_id = a}})]
            /\ last' = Response("expire_old_boosts", admin, NoneVal,
                                Cardinality(ExpiredBoosts), "ok")
    /\ UNCHANGED <<now, payments, notBilling>>

\* a day passes
TickDay ==
    /\ now < MaxDay
    /\ now' = now + 1
    /\ last' = Response("tick", NoneVal, NoneVal, NoneVal, "ok")
    /\ UNCHANGED <<ads, billingVars, notBilling>>

\* ==================================================================== Init
\* the browsers that hold a cookie of the admin back office
AdminCookies == {1, 2}

\* the listing that exists at the start: one ad of user 1, approved
InitAds == << NewAd(1, "active") >>

Init ==
    /\ now = 0
    /\ users = [u \in Users |->
                  [role |-> UserRoleOf[u], is_active |-> TRUE,
                   is_blocked |-> FALSE, deleted |-> FALSE,
                   email_verified |-> u \in VerifiedUsers, present |-> TRUE,
                   email |-> EmailOf[u],
                   password_hash |-> hash_password(InitPassword)]]
    /\ sessions = <<>>
    /\ requests = [r \in 1..MaxRequests |-> [pc |-> "idle", token |-> NoneVal]]
    /\ exchanged = {}
    /\ ads = InitAds
    /\ dialogs = <<>>
    /\ messages = <<>>
    /\ payments = <<>>
    /\ boosts = <<>>
    /\ reports = <<>>
    /\ favorites = <<>>
    /\ comparisons = {}
    /\ verifications = <<>>
    /\ resets = <<>>
    /\ admin_sessions = [c \in AdminCookies |-> NoneVal]
    /\ categories = <<>>
    /\ dialog_requests = [r \in 1..MaxDialogRequests |-> IdleRequest]
    /\ manager = [active_connections |-> <<>>, dialog_subscribers |-> <<>>,
                  lock |-> NoneVal]
    /\ connections = [c \in 1..MaxConnections |-> NoConnection]
    /\ last = Response("init", NoneVal, NoneVal, NoneVal, "ok")

\* ------------------------------------------------- authentication scenario
NextAuth ==
    \/ \E u \in {1, 2} :
          Len(sessions) < MaxSessions /\ login(EmailOf[u], InitPassword)
    \/ \E r \in 1..MaxRequests, tok \in 0..MaxSessions :
          PresentRefreshToken(r, tok, "refresh")
    \/ \E r \in 1..MaxRequests, tok \in 0..MaxSessions :
          PresentRefreshToken(r, tok, "logout")
    \/ \E r \in 1..MaxRequests : refresh_tokens(r)
    \/ \E r \in 1..MaxRequests : logout(r)
    \/ \E u \in {2} : block_user(4, u)
    \/ \E u \in {2} : unblock_user(4, u)
    \/ TickAuth

SpecAuth == Init /\ [][NextAuth]_vars

\* --------------------------------------------------------- account scenario
\* the one-time tokens a client can present: the issued ones and a forgery
PresentableTokens ==
    {verifications[i].token : i \in 1..Len(verifications)}
        \cup {resets[i].token : i \in 1..Len(resets)} \cup {ForgedJwt}

NextAccount ==
    \/ \E e \in {EmailOf[1], NewEmail} :
          Len(sessions) < MaxLogins /\ register(e, InitPassword)
    \/ \E e \in {EmailOf[1], NewEmail}, pw \in Passwords :
          Len(sessions) < MaxLogins /\ login(e, pw)
    \/ \E u \in {1, 5} : u \in DOMAIN users /\ logout_all(u)
    \/ \E u \in {1, 5} : u \in DOMAIN users /\ delete_account(u)
    \/ \E tok \in PresentableTokens : verify_email(tok)
    \/ (5 \in DOMAIN users /\ resend_verification(5))
    \/ \E e \in {EmailOf[1], NewEmail} : request_password_reset(e)
    \/ \E tok \in PresentableTokens, pw \in Passwords :
          confirm_password_reset(tok, pw)
    \/ block_user(4, 1)
    \/ admin_login(1, EmailOf[4], InitPassword)
    \/ \E value \in {"true", "false"} : admin_edit_user(1, 1, "is_active", value)

SpecAccount == Init /\ [][NextAccount]_vars

\* ------------------------------------------------------------ chat scenario
NextChat ==
    \/ \E u \in {1, 2}, a \in {1}, t \in Texts \cup {TextNone} :
          create_dialog(u, a, t)
    \/ \E u \in {1, 2, 3}, d \in 1..MaxDialogs : get_dialog(u, d)
    \/ \E u \in {1, 2, 3}, d \in 1..MaxDialogs : delete_dialog(u, d)
    \/ \E u \in {1, 2, 3}, d \in 1..MaxDialogs, t \in Texts \cup {TextNone} :
          send_message(u, d, t)
    \/ \E u \in {1, 2, 3}, d \in 1..MaxDialogs, b \in {NoneVal, MaxMessages},
          l \in {1, 50} : get_messages(u, d, b, l)
    \/ \E u \in {1, 2, 3}, d \in 1..MaxDialogs : mark_dialog_read(u, d)
    \/ \E u \in {1, 2, 3}, d \in 1..MaxDialogs : block_user_in_dialog(u, d)
    \/ \E u \in {1, 2, 3}, d \in 1..MaxDialogs : unblock_user_in_dialog(u, d)
    \/ \E u \in {1, 2, 3}, d \in 1..MaxDialogs, t \in Texts : ws_message(u, d, t)
    \/ \E u \in {1, 2, 3}, d \in 1..MaxDialogs,
          ids \in {{i} : i \in 1..MaxMessages} \cup {1..MaxMessages} :
          ws_mark_read(u, d, ids)

SpecChat == Init /\ [][NextChat]_vars

\* ----------------------------------------- concurrent create-dialog scenario
NextDialogRace ==
    \/ \E r \in 1..MaxDialogRequests, u \in {1, 2, 3}, text \in Texts \cup {TextNone} :
          create_dialog_select(r, u, 1, text)
    \/ \E r \in 1..MaxDialogRequests : create_dialog_commit(r)

SpecDialogRace == Init /\ [][NextDialogRace]_vars

\* ------------------------------------------------------ back office scenario
\* the values the UserAdmin form and PATCH /users/{id}/role carry
FormEdits ==
    {<<"role", "admin">>, <<"role", "moderator">>,
     <<"is_active", "true">>, <<"is_active", "false">>}

NextAdmin ==
    \/ \E c \in AdminCookies, u \in {3, 4}, pw \in Passwords :
          admin_login(c, EmailOf[u], pw)
    \/ \E c \in AdminCookies : admin_logout(c)
    \/ \E c \in AdminCookies : admin_list_users(c)
    \/ \E c \in AdminCookies, u \in {3, 4}, e \in FormEdits :
          admin_edit_user(c, u, e[1], e[2])
    \/ \E c \in AdminCookies, u \in {3, 4} : admin_delete_user(c, u)
    \/ \E a \in {3, 4}, u \in {3, 4}, role \in {"admin", "user"} :
          update_user_role(a, u, role)
    \/ \E u \in {3, 4} : delete_account(u)

SpecAdmin == Init /\ [][NextAdmin]_vars

\* ------------------------------------------------------- category scenario
NextCategories ==
    \/ \E u \in {1, 4}, slug \in {"s1", "s2", "s3"},
          parent \in {NoneVal, 0, 1, 2} : create_category(u, slug, parent)
    \/ \E c \in {1, 2}, slug \in {"unset", "s1", NullSlug},
          parent \in {Unset, NoneVal, 0, 1, 2} :
          update_category(4, c, slug, parent)
    \/ \E c \in {1, 2} : delete_category(4, c)

SpecCategories == Init /\ [][NextCategories]_vars

\* --------------------------------------------------------- billing scenario
NextBilling ==
    \/ \E u \in {1, 2}, a \in {1}, t \in {1, 3, 4} :
          create_payment(u, a, t)
    \/ \E u \in {1, 2}, p \in 1..MaxPayments, txn \in {NoneVal, 1},
          resolved \in BOOLEAN : confirm_payment(u, p, txn, resolved)
    \/ \E u \in {1, 2}, p \in 1..MaxPayments : refund_payment(u, p)
    \/ \E u \in {1, 4} : expire_old_boosts(u)
    \/ TickDay

SpecBilling == Init /\ [][NextBilling]_vars

\* ------------------------------------------------------------- ads scenario
\* update requests: insignificant fields, each significant one, nulls
UpdateDicts ==
    { {<<"mileage", "v">>}, {<<"price", "v">>}, {<<"price", "null">>},
      {<<"title", "v">>, <<"description", "v">>, <<"vin", "null">>} }

NextAds ==
    \/ \E u \in {1, 3}, req \in {"unset", "active"} :
          Len(ads) < MaxAds /\ create_ad(u, req)
    \/ \E u \in {1, 2, 4}, a \in 1..MaxAds, d \in UpdateDicts : update_ad(u, a, d)
    \/ \E u \in {1, 2}, a \in 1..MaxAds : delete_ad(u, a)
    \/ \E u \in {1, 2}, a \in 1..MaxAds : archive_ad(u, a)
    \/ \E u \in {1}, a \in 1..MaxAds : mark_as_sold(u, a)
    \/ \E u \in {1}, a \in 1..MaxAds : republish_ad(u, a)
    \/ \E u \in {1, 3}, a \in 1..MaxAds, act \in {"approve", "reject", "other"} :
          moderate_ad(u, a, act)
    \/ \E u \in {2}, a \in 1..MaxAds : report_ad(u, a)
    \/ \E u \in {1, 3}, r \in 1..MaxReports :
          take_action_on_report(u, r, "block_ad")
    \/ \E u \in {3, 4}, a \in 1..MaxAds, st \in {"active", "rejected"} :
          admin_edit_ad(u, a, st)

SpecAds == Init /\ [][NextAds]_vars

\* ------------------------------------------------------ moderation scenario
NextModeration ==
    \/ \E t \in {1, 2, 4} : report_user(1, t)
    \/ report_ad(2, 1)
    \/ \E m \in {1, 3}, r \in 1..MaxReports,
          status_value \in {"resolved", "dismissed"} :
          resolve_report(m, r, status_value, "n1")
    \/ \E m \in {1, 3}, r \in 1..MaxReports,
          act \in {"block_user", "unblock_user", "delete_ad", "warning"} :
          take_action_on_report(m, r, act)
    \/ \E u \in {2, 4} : block_user(4, u)
    \/ (now < MaxModerationDay /\ TickDay)

SpecModeration == Init /\ [][NextModeration]_vars

\* ------------------------------------------------------- websocket scenario
NextWs ==
    \/ create_dialog(2, 1, TextNone)
    \/ \E c \in 1..MaxConnections, u \in {1, 2} : websocket_chat(c, u)
    \/ \E c \in 1..MaxConnections : connect(c)
    \/ \E c \in 1..MaxConnections : ws_subscribe(c, 1)
    \/ \E c \in 1..MaxConnections : ws_unsubscribe(c, 1)
    \/ \E c \in 1..MaxConnections,
          why \in {"client_disconnect", "network_loss", "frame_error"} :
          websocket_chat_ends(c, why)
    \/ \E c \in 1..MaxConnections : disconnect(c)
    \/ \E c \in 1..MaxConnections : disconnect_subscribers(c)

SpecWs == Init /\ [][NextWs]_vars

\* the event loop resumes every coroutine that can run: a coroutine that
\* waits for the lock is woken in FIFO order when the lock is released, and
\* a coroutine that awaits Redis is resumed when the call returns or fails
SpecWsFair ==
    /\ SpecWs
    /\ \A c \in 1..MaxConnections :
          /\ SF_vars(disconnect(c))
          /\ WF_vars(disconnect_subscribers(c))

\* ------------------------------------------------------- favorites scenario
NextFav ==
    \/ \E u \in {1, 2}, a \in 1..MaxAds : add_to_favorites(u, a)
    \/ \E u \in {1, 2}, a \in 1..MaxAds : remove_from_favorites(u, a)
    \/ (Len(ads) < MaxAds /\ create_ad(1, "unset"))
    \/ \E a \in 1..MaxAds : delete_ad(1, a)

SpecFav == Init /\ [][NextFav]_vars

\* ------------------------------------------------------ comparison scenario
NextCompare ==
    \/ (Len(ads) < MaxCompareAds /\ create_ad(1, "unset"))
    \/ \E a \in 1..MaxCompareAds : add_to_comparison(1, a)
    \/ add_to_comparison(2, 1)
    \/ remove_from_comparison(1, 1)
    \/ clear_comparison(1)

SpecCompare == Init /\ [][NextCompare]_vars

\* ================================================================== claims
\* C1: a successful refresh-token exchange revokes the session of the
\* presented token and creates a brand-new, valid session for the same user;
\* a refresh token whose session has been exchanged is rejected when it is
\* presented again: the request ends at the dependency, no session is created
\* and no handler is started for it.
C1_Step ==
    /\ (last'.op = "refresh" /\ last'.status = "ok") =>
          /\ sessions'[last'.target].revoked
          /\ Len(sessions') = Len(sessions) + 1
          /\ last'.arg = Len(sessions')
          /\ ~sessions'[last'.arg].revoked
          /\ sessions'[last'.arg].user_id = sessions[last'.target].user_id
          /\ \A i \in 1..Len(sessions) :
                i # last'.target => sessions'[i] = sessions[i]
    /\ (last'.op = "refresh_present" /\ last'.target \in exchanged) =>
          /\ last'.status # "ok"
          /\ sessions' = sessions
          /\ requests' = requests

C1_RotationTheorem == [][C1_Step]_vars

\* a chain of two refreshes has happened and one of the two exchanged tokens
\* was presented again and refused as revoked
C1_Witness ==
    /\ last.op = "refresh_present"
    /\ last.status = "SESSION_REVOKED"
    /\ last.target \in exchanged
    /\ Cardinality(exchanged) >= 2

\* ------------------------------------------------------------------- chat
\* the dialog the last request was about existed before the request
OnExistingDialog == last'.target \in 1..Len(dialogs)

\* the last request put a new Message row into the dialog it was about
NewMessageArrived ==
    /\ Len(messages') = Len(messages) + 1
    /\ messages'[Len(messages')].dialog_id = last'.target

\* the unread counters and the last-message cache of a dialog row
UnreadAndLast(d) ==
    <<d.seller_unread_count, d.buyer_unread_count,
      d.last_message_id, d.last_message_at, d.last_message_text>>

\* C2: while either participant has blocked the other in a dialog, every
\* attempt to send a message into it (REST send-message, the WebSocket
\* 'message' frame, the initial message of create-dialog) is rejected,
\* creates no Message row and changes no unread counter or last-message
\* field.
C2_Step ==
    ( /\ OnExistingDialog
      /\ is_blocked(dialogs[last'.target])
      /\ \/ last'.op \in {"send_message", "ws_message"}
         \/ last'.op = "create_dialog" /\ last'.arg # TextNone )
    => /\ last'.status # "ok"
       /\ messages' = messages
       /\ UnreadAndLast(dialogs'[last'.target]) = UnreadAndLast(dialogs[last'.target])

C2_BlockedDialogRejectsEverySend == [][C2_Step]_vars

\* the payment a billing request names exists and belongs to the caller
OnOwnPayment ==
    /\ last'.target \in 1..Len(payments)
    /\ payments[last'.target].user_id = last'.user

\* C3: confirming a payment marks it completed and activates exactly one
\* AdBoost for it, whose expires_at is activated_at plus the duration_days
\* of the tariff, and sets the promotion flag of the tariff's feature type
\* on the ad together with the *_until timestamp of that flag.
C3_Step ==
    (last'.op = "confirm_payment" /\ OnOwnPayment) =>
        LET p == last'.target
            tariff == Tariffs[payments[p].related_tariff_id]
            ad == ads'[payments[p].related_ad_id]
            bs == {b \in 1..Len(boosts') : boosts'[b].payment_id = p}
        IN  /\ last'.status = "ok"
            /\ payments'[p].status = "completed"
            /\ Cardinality(bs) = 1
            /\ \A b \in bs :
                  /\ boosts'[b].is_active
                  /\ boosts'[b].expires_at =
                        boosts'[b].activated_at + tariff.duration_days
                  /\ FlagOf(ad, tariff.feature_type)
                  /\ UntilOf(ad, tariff.feature_type) = boosts'[b].expires_at

C3_ConfirmActivatesOneBoost == [][C3_Step]_vars

\* C4: a refund is accepted only for a payment that is completed and was
\* completed at most 7 days ago; it then marks the payment refunded,
\* deactivates and refunds the linked boost and clears the promotion flag of
\* the ad; in every other case it fails with a validation error and changes
\* neither payment, boost nor ad.
C4_Step ==
    (last'.op = "refund_payment" /\ OnOwnPayment) =>
        LET p == last'.target
            linked == {b \in 1..Len(boosts) : boosts[b].payment_id = p}
        IN  IF /\ payments[p].status = "completed"
               /\ now - payments[p].completed_at <= 7
            THEN /\ last'.status = "ok"
                 /\ payments'[p].status = "refunded"
                 /\ \A b \in linked :
                       /\ ~boosts'[b].is_active
                       /\ boosts'[b].refunded_at = now
                       /\ ~FlagOf(ads'[boosts[b].ad_id],
                                  Tariffs[boosts[b].tariff_id].feature_type)
            ELSE /\ last'.status = "VALIDATION_ERROR"
                 /\ UNCHANGED <<payments, boosts, ads>>

DueBoosts ==
    {b \in 1..Len(boosts) :
        /\ boosts[b].is_active
        /\ boosts[b].expires_at # NoneVal
        /\ boosts[b].expires_at <= now}

\* C5: a run of expire-old-boosts deactivates every active boost whose
\* expires_at has passed and clears the corresponding flag of its ad, reports
\* their number and touches no other boost; afterwards no such boost is left
\* and no boost is ever activated again, so that a repeated run with no newly
\* expired boost changes nothing and reports count 0.
C5_Step ==
    /\ (last'.op = "expire_old_boosts" /\ last'.status = "ok") =>
          /\ last'.arg = Cardinality(DueBoosts)
          /\ Len(boosts') = Len(boosts)
          /\ \A b \in 1..Len(boosts) :
                IF b \in DueBoosts
                THEN /\ ~boosts'[b].is_active
                     /\ ~FlagOf(ads'[boosts[b].ad_id],
                                Tariffs[boosts[b].tariff_id].feature_type)
                ELSE boosts'[b] = boosts[b]
          /\ \A b \in 1..Len(boosts') :
                ~(boosts'[b].is_active /\ boosts'[b].expires_at <= now')
          /\ (DueBoosts = {}) => UNCHANGED <<boosts, ads, payments>>
    /\ (/\ last.op = "expire_old_boosts" /\ last.status = "ok"
        /\ last'.op = "expire_old_boosts" /\ last'.status = "ok") =>
          /\ last'.arg = 0
          /\ UNCHANGED <<boosts, ads, payments>>
    /\ \A b \in 1..Len(boosts) : ~boosts[b].is_active => ~boosts'[b].is_active

C5_ExpireOldBoostsOnce == [][C5_Step]_vars

\* a repeated run right after a run that expired a boost: it reported 0
C5_Witness ==
    /\ last.op = "expire_old_boosts"
    /\ last.status = "ok"
    /\ last.arg = 0
    /\ \E b \in 1..Len(boosts) :
          /\ ~boosts[b].is_active
          /\ boosts[b].refunded_at = NoneVal
          /\ boosts[b].expires_at <= now
          /\ ~FlagOf(ads[boosts[b].ad_id],
                     Tariffs[boosts[b].tariff_id].feature_type)

\* ad a is in status active or rejected after the step and was not before
EntersModerated(a) ==
    /\ ads'[a].status \in {"active", "rejected"}
    /\ ads'[a].status # ads[a].status

\* the step is a moderator's approve or reject of the pending ad a
ByModerateAd(a) ==
    /\ last'.op = "moderate_ad"
    /\ last'.target = a
    /\ users[last'.user].role \in {"admin", "moderator"}
    /\ ads[a].status = "pending"
    /\ last'.arg = (IF ads'[a].status = "active" THEN "approve" ELSE "reject")

\* the step is a moderator's block_ad action on a report that targets ad a
ByBlockAd(a) ==
    /\ last'.op = "take_action_on_report"
    /\ last'.arg = "block_ad"
    /\ last'.target \in 1..Len(reports)
    /\ reports[last'.target].target_id = a
    /\ users[last'.user].role \in {"admin", "moderator"}
    /\ ads'[a].status = "rejected"

\* the step is an admin's edit of ad a in the back office
ByAdminEdit(a) ==
    /\ last'.op = "admin_edit_ad"
    /\ last'.target = a
    /\ users[last'.user].role = "admin"
    /\ last'.arg = ads'[a].status

\* every ad that the step adds is pending, and only the create endpoint adds
CreatedPending ==
    /\ (last'.op = "create_ad" /\ last'.status = "ok") =>
          Len(ads') = Len(ads) + 1
    /\ \A a \in 1..Len(ads') : a > Len(ads) => ads'[a].status = "pending"

\* C6: an ad created through the create endpoint is pending whatever the
\* request contains, and an ad enters status active or rejected only through
\* a moderator's approve or reject action on that ad.
C6_Step ==
    /\ CreatedPending
    /\ \A a \in 1..Len(ads) : EntersModerated(a) => ByModerateAd(a)

C6_OnlyApproveOrReject == [][C6_Step]_vars

\* C6 (amended): an ad created through the create endpoint is pending
\* whatever the request contains, and an ad enters status active or rejected
\* only through an action of a moderator or admin: approve or reject of the
\* pending ad, a block_ad action on a report that targets the ad (to
\* rejected, from any status), or an edit of the ad in the admin back office.
C6_AmendedStep ==
    /\ CreatedPending
    /\ \A a \in 1..Len(ads) :
          EntersModerated(a) =>
              ByModerateAd(a) \/ ByBlockAd(a) \/ ByAdminEdit(a)

C6_OnlyModeratorsDecide == [][C6_AmendedStep]_vars

\* an ad that was created through the endpoint has just been approved
C6_Witness ==
    /\ last.op = "moderate_ad"
    /\ last.status = "ok"
    /\ last.arg = "approve"
    /\ last.target > Len(InitAds)
    /\ ads[last.target].status = "active"

\* C7: a successful update of an active ad that touches title, description,
\* price or vin moves the ad to pending; one that touches none of them
\* leaves it active.
C7_Step ==
    (/\ last'.op = "update_ad"
     /\ last'.status = "ok"
     /\ ads[last'.target].status = "active") =>
        IF last'.arg \cap {"title", "description", "price", "vin"} # {}
        THEN ads'[last'.target].status = "pending"
        ELSE ads'[last'.target].status = "active"

C7_SignificantUpdateBackToPending == [][C7_Step]_vars

\* an update of the mileage alone has just left an ad active
C7_Witness ==
    /\ last.op = "update_ad"
    /\ last.status = "ok"
    /\ last.arg = {"mileage"}
    /\ ads[last.target].status = "active"

\* C11: adding the same ad again leaves exactly one Favorite row for the
\* (user, ad) pair and the favorites_count of the ad grown by exactly 1 over
\* all the adds; a remove leaves no row, decrements the counter by 1 only
\* when a row existed, and never takes it below 0.
C11_Step ==
    LET u == last'.user
        a == last'.target
        before == {i \in 1..Len(favorites) : favorites[i] = Pair(u, a)}
        after == {i \in 1..Len(favorites') : favorites'[i] = Pair(u, a)}
    IN  /\ (last'.op = "add_to_favorites" /\ last'.status = "ok") =>
              /\ Cardinality(after) = 1
              /\ ads'[a].favorites_count =
                    ads[a].favorites_count + (IF before = {} THEN 1 ELSE 0)
        /\ (last'.op = "remove_from_favorites" /\ a \in 1..Len(ads)) =>
              /\ after = {}
              /\ ads'[a].favorites_count >= 0
              /\ ads'[a].favorites_count =
                    IF before # {} /\ ads[a].favorites_count > 0
                    THEN ads[a].favorites_count - 1
                    ELSE ads[a].favorites_count

C11_FavoritesIdempotent == [][C11_Step]_vars

\* a repeated add of a pair that is already a favorite has just been answered
C11_Witness ==
    /\ last.op = "add_to_favorites"
    /\ last.arg = "already"
    /\ Cardinality(RowsOf(favorites, last.user, last.target)) = 1
    /\ ads[last.target].favorites_count = 1

\* C12: in every reachable state each user has at most 10 comparison rows;
\* an add attempted while the user has 10 entries is rejected with a
\* conflict and leaves the stored rows as they are.
C12_Step ==
    /\ \A u \in DOMAIN users :
          Cardinality({r \in comparisons' : r.user_id = u}) <= 10
    /\ (/\ last'.op = "add_to_comparison"
        /\ last'.arg \notin {"no ad", "already"}
        /\ Cardinality({r \in comparisons : r.user_id = last'.user}) >= 10)
          => /\ last'.status = "CONFLICT"
             /\ comparisons' = comparisons

C12_ComparisonAtMostTen == [][C12_Step]_vars

\* the eleventh add of a user has just been refused
C12_Witness ==
    /\ last.op = "add_to_comparison"
    /\ last.status = "CONFLICT"
    /\ Cardinality({r \in comparisons : r.user_id = last.user}) = 10
    /\ Pair(last.user, last.target) \notin comparisons

\* ---------------------------------------------------------------- accounts
\* no two rows of the users table carry the same e-mail address
OneRowPerEmail ==
    \A u, v \in UserIds : users[u].email = users[v].email => u = v

\* C13: a registration with an e-mail address that some row of the users
\* table already carries is answered with a conflict (409) and creates no
\* user, no session and no verification row; at most one user row per
\* e-mail address ever exists.
C13_Step ==
    /\ (last'.op = "register" /\ \E u \in UserIds : users[u].email = last'.arg) =>
          /\ last'.status = "CONFLICT"
          /\ UNCHANGED <<users, sessions, verifications>>
    /\ OneRowPerEmail'

C13_RegisteredEmailConflicts == [][C13_Step]_vars

\* the part of C13 that the handler keeps: the address of an account that is
\* not deleted gives the conflict, no registration with a taken address
\* writes a row, and the addresses stay unique
C13_LiveStep ==
    /\ (last'.op = "register" /\ \E u \in UserIds : users[u].email = last'.arg) =>
          /\ last'.status \in {"CONFLICT", "INTERNAL_ERROR"}
          /\ (\E u \in UserIds : users[u].email = last'.arg /\ ~users[u].deleted)
                => last'.status = "CONFLICT"
          /\ UNCHANGED <<users, sessions, verifications>>
    /\ OneRowPerEmail'

C13_LiveEmailConflicts == [][C13_LiveStep]_vars

\* the accounts that the credentials of the last login request match: the
\* row exists, is not deleted, is active, is not blocked, carries the
\* address and the digest of the password
MatchingAccounts ==
    {u \in UserIds :
        /\ users[u].email = last'.arg[1]
        /\ users[u].password_hash = hash_password(last'.arg[2])
        /\ ~users[u].deleted
        /\ users[u].is_active
        /\ ~users[u].is_blocked}

\* C14: a login creates a session, for the account it names, exactly when
\* the password matches an existing, non-deleted, active and non-blocked
\* account; a wrong password, an unknown identity, a deactivated or a blocked
\* account gets an authentication error (401) and no session is created.
C14_Step ==
    last'.op = "login" =>
        IF MatchingAccounts # {}
        THEN /\ last'.status = "ok"
             /\ last'.user \in MatchingAccounts
             /\ sessions' = Append(sessions, [user_id |-> last'.user,
                                               revoked |-> FALSE,
                                               expires_at |-> now + REFRESH_TOKEN_EXPIRE_DAYS])
        ELSE /\ last'.status = "AUTHENTICATION_ERROR"
             /\ UNCHANGED sessions

C14_LoginOnlyWithMatchingPassword == [][C14_Step]_vars

\* a login that succeeded after the password of the account was changed
C14_Witness ==
    /\ last.op = "login"
    /\ last.status = "ok"
    /\ last.arg[2] # InitPassword
    /\ sessions[last.target].user_id = last.user
    /\ ~sessions[last.target].revoked

\* a login with the right password of a deactivated account was refused
C14_DeactivatedRefused ==
    /\ last.op = "login"
    /\ last.status = "AUTHENTICATION_ERROR"
    /\ last.user \in UserIds
    /\ users[last.user].password_hash = hash_password(last.arg[2])
    /\ ~users[last.user].deleted
    /\ ~users[last.user].is_active

\* a login with the right password of a blocked account was refused
C14_BlockedRefused ==
    /\ last.op = "login"
    /\ last.status = "AUTHENTICATION_ERROR"
    /\ last.user \in UserIds
    /\ users[last.user].password_hash = hash_password(last.arg[2])
    /\ users[last.user].is_active
    /\ users[last.user].is_blocked

\* the operations that end every session of an account, and the account
\* the last of them was about
EndsAllSessions ==
    /\ last'.op \in {"logout_all", "confirm_password_reset", "block_user",
                     "delete_account"}
    /\ last'.status = "ok"

EndedAccount == IF last'.op = "block_user" THEN last'.target ELSE last'.user

\* C15: right after a logout-all, a confirmed password reset, an admin block
\* of the user or the deletion of the user's own account, no session of that
\* user has revoked = false, and every refresh token issued to the user
\* before the operation is rejected.
C15_Step ==
    EndsAllSessions =>
        /\ \A i \in 1..Len(sessions') :
              sessions'[i].user_id = EndedAccount => sessions'[i].revoked
        /\ \A tok \in 1..Len(sessions) :
              sessions[tok].user_id = EndedAccount =>
                  (get_refresh_token_session(tok))' # "ok"

C15_NoLiveSessionAfterRevokeAll == [][C15_Step]_vars

\* a password reset was confirmed for an account that had logged in twice
C15_Witness ==
    /\ last.op = "confirm_password_reset"
    /\ last.status = "ok"
    /\ Cardinality({i \in 1..Len(sessions) :
                       sessions[i].user_id = last.user /\ sessions[i].revoked}) >= 2

\* the token of the last request is in the table, marked used
UsedIn(table) ==
    \E i \in 1..Len(table) : table[i].token = last'.arg /\ table[i].used

\* C16: a one-time token is single use: once the password-reset or the
\* e-mail verification token has been consumed and marked used, presenting it
\* again is rejected and changes no state.
C16_Step ==
    /\ (last'.op = "confirm_password_reset" /\ UsedIn(resets)) =>
          /\ last'.status # "ok"
          /\ UNCHANGED <<users, sessions, verifications, resets>>
    /\ (last'.op = "verify_email" /\ UsedIn(verifications)) =>
          /\ last'.status # "ok"
          /\ UNCHANGED <<users, sessions, verifications, resets>>

C16_OneTimeTokensSingleUse == [][C16_Step]_vars

\* the part of C16 that the handlers keep: a used verification token changes
\* no state when it is presented again
C16_EmailStep ==
    (last'.op = "verify_email" /\ UsedIn(verifications)) =>
        UNCHANGED <<users, sessions, verifications, resets>>

C16_UsedVerificationChangesNothing == [][C16_EmailStep]_vars

\* a used password-reset token changes no state when it is presented again
C16_ResetStep ==
    (last'.op = "confirm_password_reset" /\ UsedIn(resets)) =>
        UNCHANGED <<users, sessions, verifications, resets>>

C16_UsedResetChangesNothing == [][C16_ResetStep]_vars

\* C17: in every reachable state there is at most one Dialog row per
\* (ad, seller, buyer) triple, whatever the interleaving of the create-dialog
\* requests.
C17_OneDialogPerTriple ==
    \A i, j \in 1..Len(dialogs) :
        (/\ dialogs[i].ad_id = dialogs[j].ad_id
         /\ dialogs[i].seller_id = dialogs[j].seller_id
         /\ dialogs[i].buyer_id = dialogs[j].buyer_id) => i = j

\* ------------------------------------------------------------- back office
BackOfficeOps == {"admin_list_users", "admin_edit_user", "admin_delete_user"}

\* the session of the cookie of the last request names, at the time of the
\* request, an account that exists, is active and has role admin
UnderLiveAdmin ==
    LET user_id == admin_sessions[last'.arg] IN
    /\ user_id # NoneVal
    /\ user_id \in DOMAIN users
    /\ users[user_id].present
    /\ users[user_id].is_active
    /\ users[user_id].role = "admin"

\* C18: a request is admitted into the admin back office only under a
\* session whose user exists, is active and has role admin at that time;
\* once the user is demoted, deactivated or removed, the next request under
\* the session is refused, changes nothing and leaves the session cleared.
C18_Step ==
    last'.op \in BackOfficeOps =>
        IF UnderLiveAdmin
        THEN /\ last'.status # "LOGIN_REQUIRED"
             /\ \A c \in AdminCookies \ {last'.arg} :
                   admin_sessions'[c] = admin_sessions[c]
        ELSE /\ last'.status = "LOGIN_REQUIRED"
             /\ admin_sessions'[last'.arg] = NoneVal
             /\ UNCHANGED <<users, sessions>>

C18_RemovedRefused ==
    /\ last.op \in BackOfficeOps
    /\ last.status = "LOGIN_REQUIRED"
    /\ last.user # NoneVal
    /\ ~users[last.user].present

C18_DeactivatedRefused ==
    /\ last.op \in BackOfficeOps
    /\ last.status = "LOGIN_REQUIRED"
    /\ last.user # NoneVal
    /\ users[last.user].present
    /\ users[last.user].role = "admin"
    /\ ~users[last.user].is_active

\* C19: read_at of a message is set at most once (a message that is read
\* keeps its read_at and stays read), and no message is in the read state
\* without being marked delivered.
C19_Step ==
    /\ \A i \in 1..Len(messages) :
          messages[i].is_read =>
              /\ messages'[i].is_read
              /\ messages'[i].read_at = messages[i].read_at
    /\ \A i \in 1..Len(messages') :
          messages'[i].is_read => messages'[i].is_delivered

C19_ReadOnceAndOnlyAfterDelivery == [][C19_Step]_vars

\* the part of C19 that the handlers keep: a read message stays read and
\* keeps its read_at
C19_ReadOnceStep ==
    \A i \in 1..Len(messages) :
        messages[i].is_read =>
            /\ messages'[i].is_read
            /\ messages'[i].read_at = messages[i].read_at

C19_ReadAtSetOnce == [][C19_ReadOnceStep]_vars

\* -------------------------------------------------------------- categories
\* C20: after any sequence of category create, update and delete
\* operations, a category without a parent has level 0, a category with a
\* parent has the level of the parent plus 1, and no two categories share a
\* slug.
C20_LevelsFollowParentsSlugsUnique ==
    /\ \A c \in CategoryIds :
          IF categories[c].parent_id = NoneVal
          THEN categories[c].level = 0
          ELSE /\ categories[c].parent_id \in CategoryIds
               /\ categories[c].level =
                     categories[categories[c].parent_id].level + 1
    /\ \A c, d \in CategoryIds :
          categories[c].slug = categories[d].slug => c = d

\* the part of C20 that the handlers keep: the slugs are unique, and a
\* category without a parent has level 0
C20_SlugsUnique ==
    /\ \A c, d \in CategoryIds :
          categories[c].slug = categories[d].slug => c = d
    /\ \A c \in CategoryIds :
          /\ categories[c].parent_id = NoneVal => categories[c].level = 0
          /\ categories[c].parent_id # NoneVal =>
                categories[c].parent_id \in CategoryIds

\* a category of level 2 whose parent is a top-level category of level 0:
\* the parent was moved to the top and the child kept its level
C20_StaleChildLevel ==
    \E c \in CategoryIds :
        LET p == categories[c].parent_id IN
        /\ p \in CategoryIds
        /\ p # c
        /\ categories[p].parent_id = NoneVal
        /\ categories[p].level = 0
        /\ categories[c].level = 2

\* C8: a user who is neither the seller nor the buyer of a dialog gets
\* not-found or forbidden from every REST operation on it (fetch, messages,
\* send, mark read, delete, block, unblock) and changes no dialog or message
\* row; a WebSocket frame of such a user is dropped and changes nothing
\* either.
RestDialogOps ==
    {"get_dialog", "get_messages", "send_message", "mark_dialog_read",
     "delete_dialog", "block_in_dialog", "unblock_in_dialog"}

WsDialogOps == {"ws_message", "ws_mark_read"}

C8_Step ==
    ( /\ last'.op \in RestDialogOps \cup WsDialogOps
      /\ OnExistingDialog
      /\ last'.user \notin {dialogs[last'.target].seller_id,
                            dialogs[last'.target].buyer_id} )
    => /\ dialogs' = dialogs
       /\ messages' = messages
       /\ last'.op \in RestDialogOps =>
             last'.status \in {"NOT_FOUND", "AUTHORIZATION_ERROR"}
       /\ last'.op \in WsDialogOps => last'.status = "ignored"

C8_OnlyParticipantsAccessDialog == [][C8_Step]_vars

\* an outsider tried to send into a dialog that holds a message already
C8_Witness ==
    /\ last.op = "send_message"
    /\ last.status = "AUTHORIZATION_ERROR"
    /\ last.target \in 1..Len(dialogs)
    /\ last.user \notin {dialogs[last.target].seller_id, dialogs[last.target].buyer_id}
    /\ Len(messages) >= 1

\* C9: a participant who soft-deleted a dialog gets not-found when fetching
\* it while the other participant still sees it; as soon as a new message
\* arrives in the dialog, from either participant, the dialog is restored
\* for the participant who had deleted it.
C9_Step ==
    /\ ( /\ last'.op = "get_dialog"
         /\ OnExistingDialog
         /\ last'.user \in {dialogs[last'.target].seller_id,
                            dialogs[last'.target].buyer_id} )
       => LET d == dialogs[last'.target]
              mine == IF last'.user = d.seller_id THEN d.is_seller_deleted
                      ELSE d.is_buyer_deleted
          IN last'.status = (IF mine THEN "NOT_FOUND" ELSE "ok")
    /\ NewMessageArrived =>
          /\ ~dialogs'[last'.target].is_seller_deleted
          /\ ~dialogs'[last'.target].is_buyer_deleted

C9_DeletedDialogRestoredByNewMessage == [][C9_Step]_vars

\* C10: a sent message adds exactly one to the unread counter of the
\* recipient and leaves the sender's counter alone; a participant who views
\* the dialog (get dialog, get messages, mark read) gets the own counter
\* reset to 0 and leaves the other participant's counter alone.
SellerUnreadBefore ==
    IF OnExistingDialog THEN dialogs[last'.target].seller_unread_count ELSE 0

BuyerUnreadBefore ==
    IF OnExistingDialog THEN dialogs[last'.target].buyer_unread_count ELSE 0

C10_Step ==
    /\ NewMessageArrived =>
          LET d == dialogs'[last'.target] IN
          IF last'.user = d.seller_id
          THEN /\ d.buyer_unread_count = BuyerUnreadBefore + 1
               /\ d.seller_unread_count = SellerUnreadBefore
          ELSE /\ d.seller_unread_count = SellerUnreadBefore + 1
               /\ d.buyer_unread_count = BuyerUnreadBefore
    /\ ( /\ last'.op \in {"get_dialog", "get_messages", "mark_dialog_read",
                          "ws_mark_read"}
         /\ last'.status = "ok" )
       => LET d == dialogs'[last'.target] IN
          IF last'.user = d.seller_id
          THEN /\ d.seller_unread_count = 0
               /\ d.buyer_unread_count = BuyerUnreadBefore
          ELSE /\ d.buyer_unread_count = 0
               /\ d.seller_unread_count = SellerUnreadBefore

C10_UnreadCounterFrame == [][C10_Step]_vars

\* both sides had an unread message and the seller fetched the dialog: the
\* seller's counter is back to 0 and the buyer's still counts one
C10_Witness ==
    /\ last.op = "get_dialog"
    /\ last.status = "ok"
    /\ last.user = dialogs[last.target].seller_id
    /\ dialogs[last.target].seller_unread_count = 0
    /\ dialogs[last.target].buyer_unread_count = 1
    /\ \E i \in 1..Len(messages) :
          messages[i].sender_id = dialogs[last.target].buyer_id /\ messages[i].is_read

\* ------------------------------------------------------ concurrent refresh
\* C23: two refresh calls that present the same valid refresh token
\* concurrently can both redeem it: a call passes the session-validity check
\* while another call holding the same token has not committed yet, and a
\* call that has passed the check creates its own new valid session, whether
\* or not the session of its token has been revoked in between, and leaves
\* every session created by another call as it is.
C23_Step ==
    /\ \A r \in 1..MaxRequests :
          ( /\ requests[r].pc = "idle"
            /\ requests'[r].pc = "refresh"
            /\ \E q \in 1..MaxRequests :
                  /\ q # r
                  /\ requests[q].pc = "refresh"
                  /\ requests[q].token = requests'[r].token )
          => /\ last'.op = "refresh_present"
             /\ last'.status = "ok"
             /\ sessions' = sessions
    /\ \A r \in 1..MaxRequests :
          (requests[r].pc = "refresh" /\ requests'[r].pc = "idle")
          => /\ last'.op = "refresh"
             /\ last'.status = "ok"
             /\ last'.target = requests[r].token
             /\ Len(sessions') = Len(sessions) + 1
             /\ sessions'[Len(sessions')].user_id = sessions[requests[r].token].user_id
             /\ ~sessions'[Len(sessions')].revoked
             /\ now' <= sessions'[Len(sessions')].expires_at
             /\ \A i \in 1..Len(sessions) :
                   i # requests[r].token => sessions'[i] = sessions[i]
    /\ \A r \in 1..MaxRequests :
          ( /\ requests[r].pc = "refresh"
            /\ sessions[requests[r].token].revoked
            /\ Len(sessions) < MaxSessions )
          => ENABLED refresh_tokens(r)

C23_OneTokenRedeemedTwice == [][C23_Step]_vars

\* one call has redeemed the token and created its session while the other
\* call, which passed the check with the same token, is still to commit
C23_Witness ==
    /\ last.op = "refresh"
    /\ last.status = "ok"
    /\ sessions[last.target].revoked
    /\ ~sessions[last.arg].revoked
    /\ \E r \in 1..MaxRequests :
          /\ requests[r].pc = "refresh"
          /\ requests[r].token = last.target

\* ---------------------------------------------------------- unread counters
\* C25: in every reachable state the unread counter of each participant of a
\* dialog equals the number of messages of the dialog that the other
\* participant sent and that are not marked read.
C25_UnreadCounterCountsUnread ==
    \A d \in 1..Len(dialogs) :
       \A u \in {dialogs[d].seller_id, dialogs[d].buyer_id} :
          (IF u = dialogs[d].seller_id THEN dialogs[d].seller_unread_count
           ELSE dialogs[d].buyer_unread_count)
          = Cardinality({i \in 1..Len(messages) :
                            /\ messages[i].dialog_id = d
                            /\ messages[i].sender_id # u
                            /\ ~messages[i].is_read})

C27_Step ==
    /\ \A p \in 1..Len(payments) :
          payments'[p].status # payments[p].status =>
             \/ payments[p].status = "pending" /\ payments'[p].status = "completed"
             \/ payments[p].status = "completed" /\ payments'[p].status = "refunded"
    /\ \A p \in 1..Len(payments) :
          payments[p].status # "pending" =>
             /\ payments'[p].completed_at = payments[p].completed_at
             /\ \A b \in (1..Len(boosts')) \ (1..Len(boosts)) :
                   boosts'[b].payment_id # p
    /\ \A p \in 1..Len(payments') :
          Cardinality({b \in 1..Len(boosts') : boosts'[b].payment_id = p}) <= 1

C28_Step ==
    ( /\ last'.op \in {"send_message", "ws_message"}
      /\ last'.status = "ok"
      /\ last'.arg # TextNone )
    => LET d == last'.target
           u == last'.user
           m == Len(messages) + 1
           old == dialogs[d]
           new == dialogs'[d]
       IN  /\ Len(messages') = m
           /\ \A i \in 1..Len(messages) : messages'[i] = messages[i]
           /\ messages'[m].dialog_id = d
           /\ messages'[m].sender_id = u
           /\ messages'[m].text = last'.arg
           /\ ~messages'[m].is_read
           /\ new.last_message_id = m
           /\ new.last_message_at = messages'[m].created_at
           /\ new.last_message_text =
                 (IF last'.arg > PreviewLen THEN PreviewLen ELSE last'.arg)
           /\ IF u = old.seller_id
              THEN /\ new.buyer_unread_count = old.buyer_unread_count + 1
                   /\ new.seller_unread_count = old.seller_unread_count
                   /\ ~new.is_seller_deleted
                   /\ new.is_buyer_deleted = old.is_buyer_deleted
              ELSE /\ new.seller_unread_count = old.seller_unread_count + 1
                   /\ new.buyer_unread_count = old.buyer_unread_count
                   /\ ~new.is_buyer_deleted
                   /\ new.is_seller_deleted = old.is_seller_deleted
           /\ \A e \in 1..Len(dialogs) : e # d => dialogs'[e] = dialogs[e]

C28_WebSocketSendsAsRest == [][C28_Step]_vars

\* --------------------------------------------------------------- moderation
\* C29: no operation sets the blocked flag of an account whose role is
\* admin: the admin block endpoint and the block_user action of a
\* moderation report both refuse it.
C29_Step ==
    \A u \in DOMAIN users :
       (users[u].role = "admin" /\ ~users[u].is_blocked)
       => ~users'[u].is_blocked

C29_AdminNeverBlocked == [][C29_Step]_vars

\* C30: a report is resolved at most once: once its status is resolved or
\* dismissed, no resolve and no take-action changes its status, resolver,
\* resolution time or note, and none applies an action to its target.
C30_Step ==
    \A r \in 1..Len(reports) :
       reports[r].status \notin {"pending", "reviewing"}
       => /\ reports'[r] = reports[r]
          /\ ( /\ last'.op \in {"resolve_report", "take_action_on_report"}
               /\ last'.target = r )
             => /\ users' = users
                /\ ads' = ads

C30_ResolvedAtMostOnce == [][C30_Step]_vars

\* ---------------------------------------------------- connection registry
\* the connections that the registry lists under user u
RegisteredOf(u) ==
    IF u \in DOMAIN manager.active_connections
    THEN {manager.active_connections[u][i] :
             i \in 1..Len(manager.active_connections[u])}
    ELSE {}

\* the connections of u whose connect has returned and whose disconnect has
\* not removed them yet
ConnectedOf(u) ==
    {c \in 1..MaxConnections :
        /\ connections[c].user_id = u
        /\ connections[c].pc \in {"open", "disconnect"}}

\* C21: connect, disconnect, subscribe and unsubscribe exclude each other on
\* the registry: while one of them holds the lock the registry changes only
\* by the call that holds it, and under every interleaving no update is
\* lost: the registry holds, for each user, exactly the connections that
\* were connected and are not yet disconnected, each once, and no key with
\* an empty list.
C21_Registry ==
    /\ \A u \in {1, 2} : RegisteredOf(u) = ConnectedOf(u)
    /\ \A u \in DOMAIN manager.active_connections :
          /\ u \in {1, 2}
          /\ Len(manager.active_connections[u]) > 0
          /\ Len(manager.active_connections[u]) = Cardinality(RegisteredOf(u))

C21_Step ==
    (manager.lock # NoneVal /\ manager' # manager)
    => /\ connections[manager.lock].pc = "set_offline"
       /\ connections'[manager.lock].pc # "set_offline"
       /\ \A c \in 1..MaxConnections :
             c # manager.lock => connections'[c] = connections[c]

C21_NoLostUpdate == []C21_Registry /\ [][C21_Step]_vars

\* the disconnect of a user's last connection holds the lock across its
\* await while a connect of the same user waits for the lock
C21_Witness ==
    /\ manager.lock # NoneVal
    /\ last.op = "websocket_chat"
    /\ \E c \in 1..MaxConnections :
          /\ connections[c].pc = "connect"
          /\ connections[c].user_id = connections[manager.lock].user_id

\* C22: when the handler of a registered connection ends, for whatever
\* reason, the connection is eventually removed from the registry; and once
\* no connection of a user is left and the disconnect that removed the last
\* one has returned, the user is reported offline and is in no dialog
\* subscriber set.
C22_Offline ==
    \A u \in {1, 2} :
       (\A c \in 1..MaxConnections :
           connections[c].user_id = u => connections[c].pc = "connect")
       => /\ ~is_user_online(u)
          /\ \A d \in DOMAIN manager.dialog_subscribers :
                u \notin manager.dialog_subscribers[d]

C22_EndedHandlerLeavesRegistry ==
    /\ \A c \in 1..MaxConnections :
          (connections[c].pc = "disconnect")
          ~> (\A u \in {1, 2} : c \notin RegisteredOf(u))
    /\ []C22_Offline

\* the last connection of a user has been removed while the other user is
\* still connected and subscribed to the dialog
C22_Witness ==
    /\ last.op = "disconnect"
    /\ last.status = "ok"
    /\ RegisteredOf(last.user) = {}
    /\ \E d \in DOMAIN manager.dialog_subscribers :
          /\ manager.dialog_subscribers[d] # {}
          /\ last.user \notin manager.dialog_subscribers[d]
    /\ \E u \in {1, 2} : RegisteredOf(u) # {}

\* C24: while a user has a connection left, a closed connection of the user
\* takes only itself out of the registry: the user stays online and stays in
\* every dialog subscriber set they were in.
C24_Step ==
    \A u \in {1, 2} :
       ( /\ last'.op = "disconnect"
         /\ last'.user = u
         /\ RegisteredOf(u)' # {} )
       => /\ RegisteredOf(u)' = RegisteredOf(u) \ {last'.target}
          /\ \A d \in DOMAIN manager.dialog_subscribers :
                u \in manager.dialog_subscribers[d]
                => /\ d \in DOMAIN manager'.dialog_subscribers
                   /\ u \in manager'.dialog_subscribers[d]

C24_OtherConnectionsKeepSubscriptions == [][C24_Step]_vars

====
